---- MODULE Spec2Model ----
(***************************************************************************)
(* The tactical-board editor (HaxFootballBoard): the element document, its *)
(* undo history, selection and context panel, the camera, the pointer      *)
(* gestures and the JSON import/export boundary.                           *)
(*                                                                         *)
(* Number representation.  The program computes in IEEE doubles; the model *)
(* computes in fixed point:                                                *)
(*   - world coordinates are integers counting 1/WorldUnit of a world unit *)
(*   - screen coordinates are integer pixels                               *)
(*   - the camera scale is an integer counting 1/ScaleUnit                 *)
(* Distances are compared through their squares, so no square root is      *)
(* taken.                                                                  *)
(***************************************************************************)
EXTENDS Integers, Sequences, FiniteSets, TLC

VARIABLES
    elements,           \* useState<El[]>: the live element sequence
    history,            \* historyRef.current: stack of snapshots, oldest first
    isUndoing,          \* isUndoingRef.current
    selectedId,         \* useState selectedId (NoId stands for null)
    ctxMenu,            \* useState ctxMenu: [open, id]
    camera,             \* useState camera: [x, y, scale]
    tool,               \* useState tool
    currentArrowColor,  \* useState currentArrowColor
    currentDashed,      \* useState currentDashed
    previewArrow,       \* useState previewArrow (NoPreview stands for null)
    drawState,          \* drawState.current (NoDraw stands for null)
    isPanning,          \* useState isPanning
    lastPointer,        \* lastPointerRef.current (NoPoint stands for null)
    spaceDown,          \* spaceDownRef.current
    nextId,             \* the next value uuidv4() returns
    nMut,               \* number of element updates so far (caps the runs)
    lastOp,             \* the handler that ran last
    lastArg,            \* the input it was given (NoArg where none is kept)
    pre                 \* the element sequence as it was before that handler

vars == << elements, history, isUndoing, selectedId, ctxMenu, camera, tool,
           currentArrowColor, currentDashed, previewArrow, drawState,
           isPanning, lastPointer, spaceDown, nextId, nMut, lastOp, lastArg, pre >>

docVars == << elements, history, isUndoing, nextId, nMut >>
uiVars == << selectedId, ctxMenu >>
camVars == << camera >>
toolVars == << tool, currentArrowColor, currentDashed >>
gestureVars == << previewArrow, drawState, isPanning, lastPointer, spaceDown >>

----------------------------------------------------------------------------
(* Types & constants *)

WorldUnit == 12
ScaleUnit == 100

HISTORY_LIMIT == 50
\* CURVE_POINT_EPSILON = 0.75 world units = 9/12
CURVE_POINT_EPSILON == 9
\* CURVE_MIN_DRAW_GAP = 5 screen pixels
CURVE_MIN_DRAW_GAP == 5

NoId == 0
\* The id "__preview" of the preview arrow, which no uuid equals
PreviewId == -1

\* Non-finite doubles
NaN == -99999999
Infinity == 99999999
IsFinite(v) == v # NaN /\ v # Infinity /\ v # -Infinity
NoPreview == [kind |-> "none"]
NoDraw == [kind |-> "none"]
NoPoint == [none |-> TRUE]

TeamColors == {"red", "blue"}
ArrowColors == {"redLine", "blueLine", "yellow"}
Tools == {"select", "arrow-straight", "arrow-curve"}

vp == [w |-> 800, h |-> 600]

Pt(x, y) == [x |-> x, y |-> y]

IdOf(e) == IF "id" \in DOMAIN e THEN e.id ELSE NoId
KindOf(e) == IF "kind" \in DOMAIN e THEN e.kind ELSE "undefined"

Ids(els) == {IdOf(els[i]) : i \in 1..Len(els)}

\* elements.some((e) => e.id === id)
HasId(els, id) == \E i \in 1..Len(els) : IdOf(els[i]) = id

\* The initial board: one ball and eight players, ids from uuidv4().
InitElements ==
    << [id |-> 1, kind |-> "ball", x |-> 0, y |-> 0],
       [id |-> 2, kind |-> "player", x |-> 25 * WorldUnit, y |-> 0,
        color |-> "blue", avatar |-> "QB"],
       [id |-> 3, kind |-> "player", x |-> 20 * WorldUnit, y |-> 150 * WorldUnit,
        color |-> "blue", avatar |-> "WR", name |-> "CWR"],
       [id |-> 4, kind |-> "player", x |-> 20 * WorldUnit, y |-> (-130) * WorldUnit,
        color |-> "blue", avatar |-> "WR", name |-> "CWR"],
       [id |-> 5, kind |-> "player", x |-> 20 * WorldUnit, y |-> (-225) * WorldUnit,
        color |-> "blue", avatar |-> "WR", name |-> "DWR"],
       [id |-> 6, kind |-> "player", x |-> (-40) * WorldUnit, y |-> (-70) * WorldUnit,
        color |-> "red", avatar |-> "CB"],
       [id |-> 7, kind |-> "player", x |-> (-150) * WorldUnit, y |-> (-35) * WorldUnit,
        color |-> "red", avatar |-> "LB"],
       [id |-> 8, kind |-> "player", x |-> (-160) * WorldUnit, y |-> 35 * WorldUnit,
        color |-> "red", avatar |-> "LB"],
       [id |-> 9, kind |-> "player", x |-> (-40) * WorldUnit, y |-> 70 * WorldUnit,
        color |-> "red", avatar |-> "CB"] >>

InitCamera == [x |-> 0, y |-> 0, scale |-> 150]

----------------------------------------------------------------------------
(* Utilities *)

\* Math.hypot(a.x - b.x, a.y - b.y), squared
Dist2(a, b) == (a.x - b.x) * (a.x - b.x) + (a.y - b.y) * (a.y - b.y)

\* a / b rounded to the nearest integer (b > 0)
RoundDiv(a, b) == (2 * a + b) \div (2 * b)

\* prunePoints' loop: result after the points from index i on are taken.
RECURSIVE PruneFrom(_, _, _, _)
PruneFrom(points, i, result, epsilon) ==
    IF i > Len(points) THEN result
    ELSE LET pt == points[i]
             n == Len(result)
         IN  IF n = 0 \/ Dist2(pt, result[n]) > epsilon * epsilon
             THEN PruneFrom(points, i + 1, Append(result, Pt(pt.x, pt.y)), epsilon)
             ELSE PruneFrom(points, i + 1,
                            [result EXCEPT ![n] = Pt(pt.x, pt.y)], epsilon)

prunePointsEps(points, epsilon) ==
    LET result == PruneFrom(points, 1, << >>, epsilon)
    IN  IF Len(result) >= 2 THEN result
        ELSE SubSeq(points, 1, IF Len(points) < 2 THEN Len(points) ELSE 2)

\* prunePoints without the fall-back to the first two raw points
prunePoints_NoFallback(points) ==
    PruneFrom(points, 1, << >>, CURVE_POINT_EPSILON)

\* prunePoints falling back to the last two raw points
prunePoints_LastTwo(points) ==
    LET result == PruneFrom(points, 1, << >>, CURVE_POINT_EPSILON)
    IN  IF Len(result) >= 2 THEN result
        ELSE SubSeq(points, IF Len(points) > 2 THEN Len(points) - 1 ELSE 1, Len(points))

\* prunePoints dropping a point within epsilon of the last kept point
\* instead of overwriting the kept point with it
prunePoints_DropsCloser(points) ==
    LET kept[i \in 0..Len(points)] ==
            IF i = 0 THEN << >>
            ELSE IF kept[i - 1] = << >>
                     \/ Dist2(points[i], kept[i - 1][Len(kept[i - 1])])
                            > CURVE_POINT_EPSILON * CURVE_POINT_EPSILON
                 THEN Append(kept[i - 1], Pt(points[i].x, points[i].y))
                 ELSE kept[i - 1]
        result == kept[Len(points)]
    IN  IF Len(result) >= 2 THEN result
        ELSE SubSeq(points, 1, IF Len(points) < 2 THEN Len(points) ELSE 2)

\* prunePoints with its default epsilon
prunePoints(points) == prunePointsEps(points, CURVE_POINT_EPSILON)

\* worldFromPointer: (p - viewport/2 - camera) / camera.scale
worldFromPointer(p, cam) ==
    Pt(RoundDiv((p.x - vp.w \div 2 - cam.x) * WorldUnit * ScaleUnit, cam.scale),
       RoundDiv((p.y - vp.h \div 2 - cam.y) * WorldUnit * ScaleUnit, cam.scale))

ClonePoint(p) == [x |-> p.x, y |-> p.y]

CloneEl(el) ==
    IF KindOf(el) = "arrow-curve"
    THEN [el EXCEPT !.points = [i \in 1..Len(@) |-> ClonePoint(@[i])]]
    ELSE el

cloneElements(els) == [i \in 1..Len(els) |-> CloneEl(els[i])]

----------------------------------------------------------------------------
(* History for undo *)

\* pushHistory without the eviction at HISTORY_LIMIT
pushHistory_NoEvict(h, snapshot) == Append(h, cloneElements(snapshot))

\* pushHistory dropping the newest entry, not the oldest, at HISTORY_LIMIT
pushHistory_EvictNewest(h, snapshot) ==
    LET pushed == Append(h, cloneElements(snapshot))
    IN  IF Len(pushed) > HISTORY_LIMIT THEN SubSeq(pushed, 1, Len(pushed) - 1)
        ELSE pushed

pushHistory(h, snapshot) ==
    LET pushed == Append(h, cloneElements(snapshot))
    IN  IF Len(pushed) > HISTORY_LIMIT THEN Tail(pushed) ELSE pushed

\* No selection repair
RepairSelection_Never(sel, els) == sel

\* useEffect on [elements, selectedId]: a dangling selection is cleared.
RepairSelection(sel, els) ==
    IF sel # NoId /\ ~HasId(els, sel) THEN NoId ELSE sel

\* An updater's result: the new array, and whether it is the very array it
\* was given (next === prev).  concat, map and filter always build a new array.
NewArray(els) == [value |-> els, same |-> FALSE]

\* applyElementsUpdate recording the updater's result, not its argument
HistoryAfterUpdate_PushesNext(h, prev, upd) ==
    IF ~isUndoing /\ ~upd.same THEN pushHistory(h, upd.value) ELSE h

\* applyElementsUpdate: history is pushed when the updater returned another
\* array than it was given, unless an undo is in progress.
HistoryAfterUpdate(h, prev, upd) ==
    IF ~isUndoing /\ ~upd.same THEN pushHistory(h, prev) ELSE h

\* The element/history part of a handler that calls applyElementsUpdate once.
applyElementsUpdate(upd, sel) ==
    /\ elements' = upd.value
    /\ history' = HistoryAfterUpdate(history, elements, upd)
    /\ nMut' = nMut + 1
    /\ selectedId' = RepairSelection(sel, upd.value)
    /\ isUndoing' = isUndoing

\* replaceElements without the history push
replaceElements_NoPush(next) ==
    /\ history' = history
    /\ elements' = cloneElements(next)
    /\ selectedId' = NoId
    /\ nMut' = nMut + 1
    /\ isUndoing' = isUndoing

\* replaceElements that leaves the selection alone
replaceElements_KeepsSelection(next) ==
    /\ history' = IF ~isUndoing THEN pushHistory(history, elements) ELSE history
    /\ elements' = cloneElements(next)
    /\ selectedId' = selectedId
    /\ nMut' = nMut + 1
    /\ isUndoing' = isUndoing

\* replaceElements: always pushes (unless undoing), stores a clone, clears
\* the selection.
replaceElements(next) ==
    /\ history' = IF ~isUndoing THEN pushHistory(history, elements) ELSE history
    /\ elements' = cloneElements(next)
    /\ selectedId' = NoId
    /\ nMut' = nMut + 1
    /\ isUndoing' = isUndoing

NoArg == << >>

\* Every handler records its name, its input and the element sequence it
\* started from.
NoteArg(op, arg) == lastOp' = op /\ lastArg' = arg /\ pre' = elements
Note(op) == NoteArg(op, NoArg)

\* undo that stores an empty sequence when there is no snapshot
Undo_EmptiesOnNoSnapshot ==
    /\ Note("undo")
    /\ IF history = << >>
       THEN elements' = << >> /\ UNCHANGED history /\ selectedId' = NoId
       ELSE /\ history' = SubSeq(history, 1, Len(history) - 1)
            /\ elements' = cloneElements(history[Len(history)])
            /\ selectedId' = RepairSelection(selectedId, elements')
    /\ UNCHANGED << isUndoing, nextId, nMut, ctxMenu >>
    /\ UNCHANGED << camVars, toolVars, gestureVars >>

\* undo that selects the last element of the snapshot it restores
Undo_SelectsRestored ==
    /\ Note("undo")
    /\ IF history = << >>
       THEN UNCHANGED << elements, history, selectedId >>
       ELSE /\ history' = SubSeq(history, 1, Len(history) - 1)
            /\ elements' = cloneElements(history[Len(history)])
            /\ selectedId' = IF elements' = << >> THEN NoId
                             ELSE IdOf(elements'[Len(elements')])
    /\ UNCHANGED << isUndoing, nextId, nMut, ctxMenu >>
    /\ UNCHANGED << camVars, toolVars, gestureVars >>

\* undo that also puts the camera back to the initial one
Undo_ResetsCamera ==
    /\ Note("undo")
    /\ IF history = << >>
       THEN UNCHANGED << elements, history, selectedId >>
       ELSE /\ history' = SubSeq(history, 1, Len(history) - 1)
            /\ elements' = cloneElements(history[Len(history)])
            /\ selectedId' = RepairSelection(selectedId, elements')
    /\ camera' = InitCamera
    /\ UNCHANGED << isUndoing, nextId, nMut, ctxMenu >>
    /\ UNCHANGED << toolVars, gestureVars >>

\* undo (Ctrl/Cmd+Z)
Undo ==
    /\ Note("undo")
    /\ IF history = << >>
       THEN UNCHANGED << elements, history, selectedId >>
       ELSE /\ history' = SubSeq(history, 1, Len(history) - 1)
            /\ elements' = cloneElements(history[Len(history)])
            /\ selectedId' = RepairSelection(selectedId, elements')
    /\ UNCHANGED << isUndoing, nextId, nMut, ctxMenu >>
    /\ UNCHANGED << camVars, toolVars, gestureVars >>

----------------------------------------------------------------------------
(* Create spawns *)

uuidv4 == nextId

\* spawnAt putting the new element first
spawnAt_Prepends(el, kind) ==
    /\ applyElementsUpdate(
           NewArray(<< [id |-> uuidv4, kind |-> kind] @@ el >> \o elements),
           selectedId)
    /\ nextId' = nextId + 1

spawnAt(el, kind) ==
    /\ applyElementsUpdate(
           NewArray(Append(elements, [id |-> uuidv4, kind |-> kind] @@ el)),
           selectedId)
    /\ nextId' = nextId + 1

\* Toolbox click handlers
SpawnClick(what) ==
    /\ NoteArg("spawnClick", what)
    /\ IF what = "player"
       THEN spawnAt([x |-> 0, y |-> 0, color |-> "blue"], "player")
       ELSE spawnAt([x |-> 0, y |-> 0], "ball")
    /\ UNCHANGED << ctxMenu, camVars, toolVars, gestureVars >>

----------------------------------------------------------------------------
(* Move handlers (drag end on an element's node) *)

\* A numeric field read; a missing field reads as undefined, and arithmetic
\* on undefined gives NaN.
Num(e, f) == IF f \in DOMAIN e THEN e[f] ELSE NaN
Plus(a, b) == IF ~IsFinite(a) \/ ~IsFinite(b) THEN NaN ELSE a + b

\* { ...e, ...patch }
Spread(e, patch) == patch @@ e

MovedXY(e, id, x, y) ==
    IF IdOf(e) = id THEN Spread(e, [x |-> x, y |-> y]) ELSE e

MovedStraight(e, id, dx, dy) ==
    IF IdOf(e) = id
    THEN Spread(e, [x1 |-> Plus(Num(e, "x1"), dx), y1 |-> Plus(Num(e, "y1"), dy),
                    x2 |-> Plus(Num(e, "x2"), dx), y2 |-> Plus(Num(e, "y2"), dy)])
    ELSE e

MovedCurve(e, id, dx, dy) ==
    IF IdOf(e) = id
    THEN Spread(e, [points |->
             [j \in 1..Len(e.points) |->
                 [x |-> Plus(e.points[j].x, dx), y |-> Plus(e.points[j].y, dy)]]])
    ELSE e

movePlayer(id, x, y) ==
    applyElementsUpdate(
        NewArray([i \in 1..Len(elements) |-> MovedXY(elements[i], id, x, y)]),
        selectedId)

moveBall(id, x, y) ==
    applyElementsUpdate(
        NewArray([i \in 1..Len(elements) |-> MovedXY(elements[i], id, x, y)]),
        selectedId)

moveStraight(id, dx, dy) ==
    applyElementsUpdate(
        NewArray([i \in 1..Len(elements) |-> MovedStraight(elements[i], id, dx, dy)]),
        selectedId)

\* moveCurve reads .points of every element carrying the id; the guard keeps
\* to the calls in which that read succeeds.
moveCurve(id, dx, dy) ==
    /\ \A i \in 1..Len(elements) :
           IdOf(elements[i]) = id => "points" \in DOMAIN elements[i]
    /\ applyElementsUpdate(
           NewArray([i \in 1..Len(elements) |-> MovedCurve(elements[i], id, dx, dy)]),
           selectedId)

\* Whether the render draws a node for the element (the switch on el.kind;
\* CurvedArrowNode returns null under 2 points).
Rendered(e) ==
    \/ KindOf(e) \in {"player", "ball", "arrow-straight"}
    \/ KindOf(e) = "arrow-curve" /\ Len(e.points) >= 2

\* onDragEnd of the node of elements[i]: players and balls report the node's
\* position, arrows the node's offset.
DragEnd(i, a, b) ==
    /\ i \in 1..Len(elements)
    /\ Rendered(elements[i])
    /\ NoteArg("dragEnd", [id |-> IdOf(elements[i]), x |-> a, y |-> b])
    /\ LET e == elements[i] IN
        CASE KindOf(e) = "player" -> movePlayer(IdOf(e), a, b)
          [] KindOf(e) = "ball" -> moveBall(IdOf(e), a, b)
          [] KindOf(e) = "arrow-straight" -> moveStraight(IdOf(e), a, b)
          [] KindOf(e) = "arrow-curve" -> moveCurve(IdOf(e), a, b)
    /\ UNCHANGED << nextId, ctxMenu, camVars, toolVars, gestureVars >>

----------------------------------------------------------------------------
(* Context panel and its actions *)

closedCtx == [open |-> FALSE, id |-> NoId]

\* elements.find((e) => e.id === ctxMenu.id)
ctxTargetIndex ==
    IF HasId(elements, ctxMenu.id)
    THEN CHOOSE i \in 1..Len(elements) :
            /\ IdOf(elements[i]) = ctxMenu.id
            /\ \A j \in 1..(i - 1) : IdOf(elements[j]) # ctxMenu.id
    ELSE 0

\* The panel is shown when ctxMenu.open && ctxTarget.
PanelShown == ctxMenu.open /\ ctxTargetIndex # 0

\* openCtx: right-click on the node of elements[i]
OpenCtx(i) ==
    /\ i \in 1..Len(elements)
    /\ Rendered(elements[i])
    /\ Note("openCtx")
    /\ ctxMenu' = [open |-> TRUE, id |-> IdOf(elements[i])]
    /\ UNCHANGED << docVars, selectedId, camVars, toolVars, gestureVars >>

\* updateElement applying the patch to every element
updateElement_PatchesAll(id, patch) ==
    applyElementsUpdate(
        NewArray([i \in 1..Len(elements) |-> Spread(elements[i], patch)]),
        selectedId)

updateElement(id, patch) ==
    applyElementsUpdate(
        NewArray([i \in 1..Len(elements) |->
            IF IdOf(elements[i]) = id THEN Spread(elements[i], patch)
            ELSE elements[i]]),
        selectedId)

deleteElement(id) ==
    applyElementsUpdate(
        NewArray(SelectSeq(elements, LAMBDA e : IdOf(e) # id)),
        IF selectedId = id THEN NoId ELSE selectedId)

\* The patches the panel offers for its target, by the target's kind.
PanelPatches(e) ==
    CASE KindOf(e) = "player" ->
            {[color |-> c] : c \in TeamColors}
            \cup {[avatar |-> a] : a \in {"QB", "X"}}
            \cup {[name |-> n] : n \in {"CWR"}}
      [] KindOf(e) \in {"arrow-straight", "arrow-curve"} ->
            {[color |-> c] : c \in ArrowColors}
            \cup {[dashed |-> ~e.dashed]}
      [] OTHER -> {}

\* A colour button, the avatar or name field, or the dashed checkbox.
PanelPatch(patch) ==
    /\ PanelShown
    /\ patch \in PanelPatches(elements[ctxTargetIndex])
    /\ NoteArg("patch", patch)
    /\ updateElement(IdOf(elements[ctxTargetIndex]), patch)
    /\ UNCHANGED << nextId, ctxMenu, camVars, toolVars, gestureVars >>

\* The panel's Delete button: deleteElement(ctxTarget.id); closeCtx().
PanelDelete ==
    /\ PanelShown
    /\ KindOf(elements[ctxTargetIndex]) \in
           {"player", "ball", "arrow-straight", "arrow-curve"}
    /\ NoteArg("delete", [id |-> IdOf(elements[ctxTargetIndex]),
                          selected |-> selectedId])
    /\ deleteElement(IdOf(elements[ctxTargetIndex]))
    /\ ctxMenu' = closedCtx
    /\ UNCHANGED << nextId, camVars, toolVars, gestureVars >>

\* onKeyDown with the Delete key and no modifier.
DeleteKey(isEditable) ==
    /\ IF ~isEditable /\ selectedId # NoId
       THEN /\ NoteArg("delete", [id |-> selectedId, selected |-> selectedId])
            /\ ctxMenu' = closedCtx
            /\ deleteElement(selectedId)
       ELSE /\ Note("delete")
            /\ UNCHANGED << elements, history, nMut, selectedId, isUndoing, ctxMenu >>
    /\ UNCHANGED << nextId, camVars, toolVars, gestureVars >>

----------------------------------------------------------------------------
(* Toolbox settings *)

SetTool(t) ==
    /\ Note("setTool")
    /\ tool' = t
    /\ UNCHANGED << docVars, uiVars, camVars, currentArrowColor, currentDashed,
                    gestureVars >>

SetArrowColor(c) ==
    /\ Note("setArrowColor")
    /\ currentArrowColor' = c
    /\ UNCHANGED << docVars, uiVars, camVars, tool, currentDashed, gestureVars >>

SetDashed(d) ==
    /\ Note("setDashed")
    /\ currentDashed' = d
    /\ UNCHANGED << docVars, uiVars, camVars, tool, currentArrowColor, gestureVars >>

----------------------------------------------------------------------------
(* Pointer presses, moves and releases on the canvas *)

\* handlePointerDown (window): a primary press outside canvas and panel
\* clears the selection; any press outside the panel closes an open panel.
SelAfterPointerDown(button, where) ==
    IF button = 0 /\ where = "outside" THEN NoId ELSE selectedId

CtxAfterPointerDown(where) ==
    IF ~ctxMenu.open THEN ctxMenu
    ELSE IF where = "context" THEN ctxMenu
    ELSE closedCtx

\* A press that lands neither on the canvas nor (when it is shown) on the
\* context panel, or that lands on the panel itself.
PointerDownOff(button, where) ==
    /\ where \in {"outside", "context"}
    /\ where = "context" => PanelShown
    /\ NoteArg("pointerDown", [button |-> button, where |-> where])
    /\ selectedId' = SelAfterPointerDown(button, where)
    /\ ctxMenu' = CtxAfterPointerDown(where)
    /\ UNCHANGED << docVars, camVars, toolVars, gestureVars >>

\* Panning by the primary button on the empty canvas only
StartsPan_PrimaryOnly(button, onStage) ==
    button = 0 /\ onStage /\ tool = "select"

\* handleMouseDown's panning test
StartsPan(button, onStage) ==
    spaceDown \/ button = 1 \/ (button = 0 /\ onStage /\ tool = "select")

\* A draw session that always starts at the world origin
DrawAfterDown_StartsAtOrigin(button, p) ==
    IF spaceDown \/ button = 1 THEN drawState
    ELSE IF tool = "arrow-straight"
         THEN [kind |-> "arrow-straight", start |-> Pt(0, 0)]
    ELSE IF tool = "arrow-curve"
         THEN [kind |-> "arrow-curve", points |-> << Pt(0, 0) >>]
    ELSE drawState

\* onStageMouseDown's draw state after the press
DrawAfterDown(button, p) ==
    IF spaceDown \/ button = 1 THEN drawState
    ELSE IF tool = "arrow-straight"
         THEN [kind |-> "arrow-straight", start |-> worldFromPointer(p, camera)]
    ELSE IF tool = "arrow-curve"
         THEN [kind |-> "arrow-curve", points |-> << worldFromPointer(p, camera) >>]
    ELSE drawState

PreviewAfterDown(button) ==
    IF spaceDown \/ button = 1 THEN previewArrow
    ELSE IF tool \in {"arrow-straight", "arrow-curve"} THEN NoPreview
    ELSE previewArrow

\* A press on the canvas at screen point p, on the stage itself (target 0)
\* or on the node of elements[target]: the window's pointerdown handler,
\* the node's onMouseDown, then the Stage's handleMouseDown and
\* onStageMouseDown.
MouseDown(button, target, p) ==
    /\ target = 0 \/ (target \in 1..Len(elements) /\ Rendered(elements[target]))
    /\ NoteArg("mouseDown", [x |-> p.x, y |-> p.y, button |-> button,
                              target |-> target])
    /\ ctxMenu' = IF ctxMenu.open \/ (button = 0 /\ target # 0) THEN closedCtx
                  ELSE ctxMenu
    /\ selectedId' = IF button # 0 THEN selectedId
                     ELSE IF target = 0 THEN NoId
                     ELSE IdOf(elements[target])
    /\ IF StartsPan(button, target = 0)
       THEN isPanning' = TRUE /\ lastPointer' = p
       ELSE UNCHANGED << isPanning, lastPointer >>
    /\ drawState' = DrawAfterDown(button, p)
    /\ previewArrow' = PreviewAfterDown(button)
    /\ UNCHANGED << docVars, camVars, toolVars, spaceDown >>

\* handleMouseMove's camera
CameraAfterMove(p) ==
    IF isPanning /\ lastPointer # NoPoint
    THEN [camera EXCEPT !.x = Plus(@, p.x - lastPointer.x),
                        !.y = Plus(@, p.y - lastPointer.y)]
    ELSE camera

\* dist >= CURVE_MIN_DRAW_GAP / camera.scale, both sides squared
AtLeastMinSegment(a, b, cam) ==
    Dist2(a, b) * cam.scale * cam.scale >=
        (CURVE_MIN_DRAW_GAP * WorldUnit * ScaleUnit) * (CURVE_MIN_DRAW_GAP * WorldUnit * ScaleUnit)

\* onStageMouseMove's update of the accumulated curve points
CurvePointsAfterMove(pts, world, cam) ==
    IF Len(pts) = 1 THEN Append(pts, world)
    ELSE IF AtLeastMinSegment(world, pts[Len(pts)], cam) THEN Append(pts, world)
    ELSE [pts EXCEPT ![Len(pts)] = world]

\* A pointer move over the canvas: handleMouseMove, then onStageMouseMove.
MouseMove(p) ==
    /\ NoteArg("mouseMove", p)
    /\ camera' = CameraAfterMove(p)
    /\ lastPointer' = IF isPanning /\ lastPointer # NoPoint THEN p ELSE lastPointer
    /\ LET world == worldFromPointer(p, camera) IN
        CASE drawState.kind = "none" ->
                UNCHANGED << drawState, previewArrow >>
          [] drawState.kind = "arrow-straight" ->
                /\ previewArrow' =
                       [id |-> PreviewId, kind |-> "arrow-straight",
                        x1 |-> drawState.start.x, y1 |-> drawState.start.y,
                        x2 |-> world.x, y2 |-> world.y,
                        color |-> currentArrowColor, dashed |-> currentDashed]
                /\ UNCHANGED drawState
          [] drawState.kind = "arrow-curve" ->
                LET pts == CurvePointsAfterMove(drawState.points, world, camera) IN
                /\ drawState' = [drawState EXCEPT !.points = pts]
                /\ previewArrow' =
                       [id |-> PreviewId, kind |-> "arrow-curve",
                        points |-> [i \in 1..Len(pts) |-> ClonePoint(pts[i])],
                        color |-> currentArrowColor, dashed |-> currentDashed]
    /\ UNCHANGED << docVars, uiVars, toolVars, isPanning, spaceDown >>

\* onStageMouseUp's final point list of a curve gesture
CurvePointsAtRelease(pts, world) ==
    IF Len(pts) = 1 THEN Append(pts, Pt(world.x, world.y))
    ELSE [pts EXCEPT ![Len(pts)] = Pt(world.x, world.y)]

\* A release that drops the session without a commit and leaves the preview
MouseUp_KeepsPreview(p) ==
    /\ NoteArg("mouseUp", p)
    /\ isPanning' = FALSE
    /\ lastPointer' = NoPoint
    /\ drawState' = NoDraw
    /\ UNCHANGED << docVars, uiVars, camVars, toolVars, previewArrow, spaceDown >>

\* A release over the canvas: handleMouseUp, then onStageMouseUp.
MouseUp(p) ==
    /\ NoteArg("mouseUp", p)
    /\ isPanning' = FALSE
    /\ lastPointer' = NoPoint
    /\ LET world == worldFromPointer(p, camera) IN
        CASE drawState.kind = "none" ->
                UNCHANGED << docVars, selectedId, drawState, previewArrow >>
          [] drawState.kind = "arrow-straight" ->
                /\ applyElementsUpdate(
                       NewArray(Append(elements,
                           [id |-> uuidv4, kind |-> "arrow-straight",
                            x1 |-> drawState.start.x, y1 |-> drawState.start.y,
                            x2 |-> world.x, y2 |-> world.y,
                            color |-> currentArrowColor, dashed |-> currentDashed])),
                       selectedId)
                /\ nextId' = nextId + 1
                /\ previewArrow' = NoPreview
                /\ drawState' = NoDraw
          [] drawState.kind = "arrow-curve" ->
                LET pts == CurvePointsAtRelease([i \in 1..Len(drawState.points) |-> ClonePoint(drawState.points[i])], world)
                    filtered == prunePoints(pts)
                IN  /\ IF Len(filtered) < 2
                       THEN UNCHANGED docVars /\ UNCHANGED selectedId
                       ELSE /\ applyElementsUpdate(
                                   NewArray(Append(elements,
                                       [id |-> uuidv4, kind |-> "arrow-curve",
                                        points |-> filtered,
                                        color |-> currentArrowColor,
                                        dashed |-> currentDashed])),
                                   selectedId)
                            /\ nextId' = nextId + 1
                    /\ previewArrow' = NoPreview
                    /\ drawState' = NoDraw
    /\ UNCHANGED << ctxMenu, camVars, toolVars, spaceDown >>

----------------------------------------------------------------------------
(* Drag & drop from the toolbox *)

\* onDrop: the dataTransfer text and the drop point relative to the canvas
Drop(type, p) ==
    /\ NoteArg("drop", [type |-> type, x |-> p.x, y |-> p.y])
    /\ LET world == worldFromPointer(p, camera) IN
        IF type = "player"
        THEN spawnAt([x |-> world.x, y |-> world.y, color |-> "blue"], "player")
        ELSE IF type = "ball"
        THEN spawnAt([x |-> world.x, y |-> world.y], "ball")
        ELSE UNCHANGED << docVars, selectedId >>
    /\ UNCHANGED << ctxMenu, camVars, toolVars, gestureVars >>

----------------------------------------------------------------------------
(* Camera: zoom by wheel and by the digit keys                              *)

\* Math.min, Math.max: NaN if an argument is NaN
MathMax(a, b) == IF a = NaN \/ b = NaN THEN NaN ELSE IF a >= b THEN a ELSE b
MathMin(a, b) == IF a = NaN \/ b = NaN THEN NaN ELSE IF a <= b THEN a ELSE b

clamp(v, a, b) == MathMin(b, MathMax(a, v))

\* A quotient n / d of integers, and NaN
Frac(n, d) == [n |-> n, d |-> d]
NaNFrac == [n |-> NaN, d |-> 1]

\* cameraZoomTo's offset on one axis, exactly: with A = anchor - viewport / 2,
\* world = (A - offset) / scale and the new offset is A - world * newScale,
\* that is (A * scale - (A - offset) * newScale) / scale.  A scale or an
\* offset that is NaN makes the result NaN; an infinite scale makes world 0.
ZoomOffset(anchor, half, offset, scale, newScale) ==
    IF offset = NaN \/ scale = NaN \/ newScale = NaN THEN NaNFrac
    ELSE IF scale = Infinity THEN Frac(anchor - half, 1)
    ELSE Frac((anchor - half) * scale - (anchor - half - offset) * newScale, scale)

\* A zoom that rescales about the world origin: the offsets are kept
cameraZoomTo_KeepsOffset(cam, anchorScreen, newScale, viewport) ==
    [scale |-> newScale, x |-> Frac(cam.x, 1), y |-> Frac(cam.y, 1)]

\* cameraZoomTo, with exact offsets
cameraZoomTo(cam, anchorScreen, newScale, viewport) ==
    [scale |-> newScale,
     x |-> ZoomOffset(anchorScreen.x, viewport.w \div 2, cam.x, cam.scale, newScale),
     y |-> ZoomOffset(anchorScreen.y, viewport.h \div 2, cam.y, cam.scale, newScale)]

\* The camera as the state holds it: offsets to the nearest pixel
OnGrid(q) == IF q.n = NaN THEN NaN ELSE RoundDiv(q.n, q.d)
StoredCamera(cam) == [x |-> OnGrid(cam.x), y |-> OnGrid(cam.y), scale |-> cam.scale]

\* scaleBy = 1.05, applied to camera.scale (to the nearest 1 / ScaleUnit)
WheelTarget(scale, deltaYPositive) ==
    IF ~IsFinite(scale) THEN scale
    ELSE IF deltaYPositive THEN RoundDiv(scale * 100, 105)
    ELSE RoundDiv(scale * 105, 100)

MinScale == 20
MaxScale == 400

\* handleWheel with the pointer at screen point p
Wheel(deltaYPositive, p) ==
    /\ NoteArg("wheel", [deltaYPositive |-> deltaYPositive, pointer |-> p])
    /\ LET newScale == clamp(WheelTarget(camera.scale, deltaYPositive),
                             MinScale, MaxScale)
       IN  camera' = StoredCamera(cameraZoomTo(camera, p, newScale, vp))
    /\ UNCHANGED << docVars, uiVars, toolVars, gestureVars >>

\* scaleShortcut of onKeyDown
scaleShortcut(key) ==
    CASE key = 1 -> 125 [] key = 2 -> 150 [] key = 3 -> 200
      [] key = 4 -> 225 [] key = 5 -> 250

\* A digit key that sets the scale and leaves the offsets as they are
DigitKey_KeepsOffset(key, isEditable) ==
    /\ NoteArg("digitKey", [key |-> key, editable |-> isEditable])
    /\ camera' = [camera EXCEPT !.scale = scaleShortcut(key)]
    /\ UNCHANGED << docVars, uiVars, toolVars, gestureVars >>

\* onKeyDown with a digit key "1" .. "5", the focus in an editable field or
\* not (isEditable is computed and not read on this path)
DigitKey(key, isEditable) ==
    /\ NoteArg("digitKey", [key |-> key, editable |-> isEditable])
    /\ camera' = StoredCamera(cameraZoomTo(camera, Pt(vp.w \div 2, vp.h \div 2),
                                           scaleShortcut(key), vp))
    /\ UNCHANGED << docVars, uiVars, toolVars, gestureVars >>

\* onKeyDown / onKeyUp with the Space key, the focus in an editable field
\* or not (not read on this path)
SpaceKey(down, isEditable) ==
    /\ NoteArg(IF down THEN "spaceDown" ELSE "spaceUp", [editable |-> isEditable])
    /\ spaceDown' = down
    /\ UNCHANGED << docVars, uiVars, camVars, toolVars,
                    previewArrow, drawState, isPanning, lastPointer >>

----------------------------------------------------------------------------
(* JSON values.  In a parsed payload every numeric field (x, y, x1, ... and *)
(* the x, y of curve points) holds a tagged JSON value; id, kind, color,    *)
(* avatar and name hold their plain value; a missing key is a missing       *)
(* field.                                                                    *)

JNum(n) == [t |-> "number", n |-> n, s |-> "", b |-> FALSE]
JStr(str) == [t |-> "string", n |-> 0, s |-> str, b |-> FALSE]
JBool(bool) == [t |-> "boolean", n |-> 0, s |-> "", b |-> bool]
JNull == [t |-> "null", n |-> 0, s |-> "", b |-> FALSE]
JUndefined == [t |-> "undefined", n |-> 0, s |-> "", b |-> FALSE]

NumericFields == {"x", "y", "x1", "y1", "x2", "y2", "cx1", "cy1", "cx2", "cy2"}
TaggedFields == NumericFields \cup {"dashed"}

\* el[f], undefined when the key is missing
Field(el, f) == IF f \in DOMAIN el THEN el[f] ELSE JUndefined

\* typeof v === "number"
IsNumber(v) == v.t = "number"

\* The strings of the model and what Number() makes of them
StringToNumber(str) ==
    CASE str = "" -> 0
      [] str = "12" -> 12 * WorldUnit
      [] OTHER -> NaN

\* Number(v)
ToNumber(v) ==
    CASE v.t = "number" -> v.n
      [] v.t = "string" -> StringToNumber(v.s)
      [] v.t = "boolean" -> IF v.b THEN WorldUnit ELSE 0
      [] v.t = "null" -> 0
      [] OTHER -> NaN

\* Boolean(v)
ToBoolean(v) ==
    CASE v.t = "number" -> v.n # 0 /\ v.n # NaN
      [] v.t = "string" -> v.s # ""
      [] v.t = "boolean" -> v.b
      [] OTHER -> FALSE

\* Number(v) || 0
NumberOrZero(v) == IF ToNumber(v) = NaN THEN 0 ELSE ToNumber(v)

\* JSON.stringify of a number: NaN and the infinities are written as null.
NumberToJson(n) == IF IsFinite(n) THEN JNum(n) ELSE JNull

PointToJson(p) == [x |-> NumberToJson(p.x), y |-> NumberToJson(p.y)]

\* JSON.parse(JSON.stringify(el)) of a live element
ElementToJson(el) ==
    [f \in DOMAIN el |->
        IF f \in NumericFields THEN NumberToJson(el[f])
        ELSE IF f = "dashed" THEN JBool(el[f])
        ELSE IF f = "points" THEN [i \in 1..Len(el[f]) |-> PointToJson(el[f][i])]
        ELSE el[f]]

\* JSON.parse(JSON.stringify(state)).elements
ExportElements(els) == [i \in 1..Len(els) |-> ElementToJson(els[i])]

\* A parsed record taken as an element as it is ("el as El"): the model's
\* live elements hold plain numbers and booleans.
Untagged(v) ==
    CASE v.t = "number" -> v.n
      [] v.t = "boolean" -> v.b
      [] OTHER -> NaN

PassThrough(raw) ==
    [f \in DOMAIN raw |-> IF f \in TaggedFields THEN Untagged(raw[f]) ELSE raw[f]]

----------------------------------------------------------------------------
(* Import normalization *)

normalizeArrowColor(color) ==
    CASE color = "redLine" \/ color = "red" -> "redLine"
      [] color = "blueLine" \/ color = "blue" -> "blueLine"
      [] color = "yellow" -> "yellow"
      [] OTHER -> "blueLine"

ColorOf(raw) == IF "color" \in DOMAIN raw THEN raw.color ELSE "undefined"

\* sampleCubicPoints: the cubic Bernstein polynomial at i / segments
CubicAt(a, c1, c2, b, i, segments) ==
    LET m == segments - i
    IN  RoundDiv(m * m * m * a + 3 * m * m * i * c1 + 3 * m * i * i * c2 + i * i * i * b,
                 segments * segments * segments)

sampleCubicPoints(start, control1, control2, end, segments) ==
    [k \in 1..(segments + 1) |->
        Pt(CubicAt(start.x, control1.x, control2.x, end.x, k - 1, segments),
           CubicAt(start.y, control1.y, control2.y, end.y, k - 1, segments))]

DefaultSegments == 24

\* The points filtered by truthiness (p.x && p.y), which also drops every
\* point with a zero coordinate
CoercedPoints_Truthy(rawPoints) ==
    SelectSeq(
        [i \in 1..Len(rawPoints) |->
            Pt(NumberOrZero(Field(rawPoints[i], "x")),
               NumberOrZero(Field(rawPoints[i], "y")))],
        LAMBDA p : IsFinite(p.x) /\ IsFinite(p.y) /\ p.x # 0 /\ p.y # 0)

\* el.points.map(p => ({x: Number(p?.x) || 0, y: Number(p?.y) || 0}))
\*          .filter(p => Number.isFinite(p.x) && Number.isFinite(p.y))
CoercedPoints(rawPoints) ==
    SelectSeq(
        [i \in 1..Len(rawPoints) |->
            Pt(NumberOrZero(Field(rawPoints[i], "x")),
               NumberOrZero(Field(rawPoints[i], "y")))],
        LAMBDA p : IsFinite(p.x) /\ IsFinite(p.y))

Dropped == [dropped |-> TRUE]

HasLegacyCubic(raw) ==
    \A f \in {"x1", "y1", "x2", "y2", "cx1", "cy1", "cx2", "cy2"} :
        IsNumber(Field(raw, f))

\* The map callback of normalizeImportedElements on one record; fresh is
\* what uuidv4() returns if it is called.
NormalizeOne(raw, fresh) ==
    LET id == IF "id" \in DOMAIN raw THEN raw.id ELSE fresh
        color == normalizeArrowColor(ColorOf(raw))
        dashed == ToBoolean(Field(raw, "dashed"))
    IN
    IF "primitive" \in DOMAIN raw THEN Dropped
    ELSE IF KindOf(raw) = "arrow-curve" THEN
        IF "points" \in DOMAIN raw /\ Len(raw.points) >= 2 THEN
            LET points == prunePoints(CoercedPoints(raw.points))
            IN  IF Len(points) < 2 THEN Dropped
                ELSE [id |-> id, kind |-> "arrow-curve", points |-> points,
                      color |-> color, dashed |-> dashed]
        ELSE IF HasLegacyCubic(raw) THEN
            [id |-> id, kind |-> "arrow-curve",
             points |-> prunePoints(sampleCubicPoints(
                 Pt(raw.x1.n, raw.y1.n), Pt(raw.cx1.n, raw.cy1.n),
                 Pt(raw.cx2.n, raw.cy2.n), Pt(raw.x2.n, raw.y2.n), DefaultSegments)),
             color |-> color, dashed |-> dashed]
        ELSE Dropped
    ELSE IF KindOf(raw) = "arrow-straight" THEN
        LET x1 == ToNumber(Field(raw, "x1"))
            y1 == ToNumber(Field(raw, "y1"))
            x2 == ToNumber(Field(raw, "x2"))
            y2 == ToNumber(Field(raw, "y2"))
        IN  IF IsFinite(x1) /\ IsFinite(y1) /\ IsFinite(x2) /\ IsFinite(y2)
            THEN [id |-> id, kind |-> "arrow-straight",
                  x1 |-> x1, y1 |-> y1, x2 |-> x2, y2 |-> y2,
                  color |-> color, dashed |-> dashed]
            ELSE Dropped
    ELSE PassThrough(raw)

\* Whether the callback calls uuidv4() on the record (el.id ?? uuidv4())
TakesFreshId(raw) ==
    /\ "primitive" \notin DOMAIN raw
    /\ KindOf(raw) \in {"arrow-curve", "arrow-straight"}
    /\ "id" \notin DOMAIN raw
    /\ NormalizeOne(raw, NoId) # Dropped

\* The normalization giving up at the first record it drops: the records
\* after it are lost
RECURSIVE NormalizeFrom_StopsAtDropped(_, _, _)
NormalizeFrom_StopsAtDropped(raw, i, fresh) ==
    IF i > Len(raw) THEN [els |-> << >>, next |-> fresh]
    ELSE LET one == NormalizeOne(raw[i], fresh)
             rest == NormalizeFrom_StopsAtDropped(raw, i + 1,
                                   IF TakesFreshId(raw[i]) THEN fresh + 1 ELSE fresh)
         IN  IF one = Dropped THEN [els |-> << >>, next |-> fresh]
             ELSE [els |-> << one >> \o rest.els, next |-> rest.next]

\* raw.map(...).filter(Boolean), from index i on, with uuidv4() at fresh:
\* [els: the elements kept, next: the next value of uuidv4()]
RECURSIVE NormalizeFrom(_, _, _)
NormalizeFrom(raw, i, fresh) ==
    IF i > Len(raw) THEN [els |-> << >>, next |-> fresh]
    ELSE LET one == NormalizeOne(raw[i], fresh)
             rest == NormalizeFrom(raw, i + 1,
                                   IF TakesFreshId(raw[i]) THEN fresh + 1 ELSE fresh)
         IN  [els |-> IF one = Dropped THEN rest.els ELSE << one >> \o rest.els,
              next |-> rest.next]

normalizeImportedElements(raw, fresh) ==
    LET r == NormalizeFrom(raw, 1, fresh)
    IN  [els |-> cloneElements(r.els), next |-> r.next]

----------------------------------------------------------------------------
(* Import dialog, Load *)

DefaultImportCamera == [x |-> 0, y |-> 0, scale |-> ScaleUnit]

\* A payload is the text's parse: a failure, the value null, or an object
\* whose elements field is missing, a list (field elements), or a value that
\* is no list (field elementsNotAList), and whose camera field is missing or
\* a camera.
ParseFails(payload) == payload.parse = "error"

\* A Load that takes an elements value that is no list as an empty list
NormalizationFails_OnlyNull(payload) == payload.parse = "null"

NormalizationFails(payload) ==
    \/ payload.parse = "null"
    \/ payload.parse = "object" /\ "elementsNotAList" \in DOMAIN payload

ImportLoad(payload) ==
    /\ NoteArg("import", payload)
    /\ IF ParseFails(payload) \/ NormalizationFails(payload)
       THEN UNCHANGED << docVars, selectedId, camera >>
       ELSE LET raw == IF "elements" \in DOMAIN payload THEN payload.elements
                       ELSE << >>
                normalized == normalizeImportedElements(raw, nextId)
            IN  /\ replaceElements(normalized.els)
                /\ nextId' = normalized.next
                /\ camera' = IF "camera" \in DOMAIN payload THEN payload.camera
                             ELSE DefaultImportCamera
    /\ UNCHANGED << ctxMenu, toolVars, gestureVars >>

----------------------------------------------------------------------------
(* Bounds and inputs *)

\* Element updates per run
MaxMut == 2

\* The initial elements the inputs address: the first MaxInitTarget of them
\* (the ball, then the players in order).  Elements created or imported
\* later are all addressed.
MaxInitTarget == 2

Targets ==
    {i \in 1..Len(elements) :
        IdOf(elements[i]) \notin (MaxInitTarget + 1)..Len(InitElements)}

\* Drag ends: a node position (players, balls) or a node offset (arrows).
MovePoints == {Pt(0, 0), Pt(WorldUnit, 0)}

AllPatches ==
    {[color |-> c] : c \in TeamColors \cup ArrowColors}
    \cup {[avatar |-> a] : a \in {"QB", "X"}}
    \cup {[name |-> n] : n \in {"CWR"}}
    \cup {[dashed |-> d] : d \in BOOLEAN}

Buttons == {0, 1, 2}

\* Where the pointer is in the document runs: 3 px right of the viewport
\* centre (2 world units at the initial scale).
DocPointer == Pt(403, 300)

\* Screen points of the pointer in the gesture runs: the viewport centre and
\* 1, 2, 4 and 8 px right of it, so that no two are exactly CURVE_MIN_DRAW_GAP
\* pixels apart.
Pointers == {Pt(400, 300), Pt(401, 300), Pt(402, 300), Pt(404, 300), Pt(408, 300)}

\* Committed draw gestures per gesture run
MaxMutDraw == 1

DropTypes == {"player", "ball", "text", ""}

\* Parsed records of imported payloads
RawBall == [kind |-> "ball", x |-> JNum(0), y |-> JNum(0)]
RawBallWithId == [id |-> 1, kind |-> "ball", x |-> JNum(WorldUnit), y |-> JNum(0)]
RawPlayerWithId ==
    [id |-> 77, kind |-> "player", x |-> JNum(0), y |-> JNum(0), color |-> "red"]
RawStraight ==
    [kind |-> "arrow-straight", x1 |-> JNum(0), y1 |-> JNum(0),
     x2 |-> JNum(WorldUnit), y2 |-> JNum(0), color |-> "red", dashed |-> JBool(TRUE)]
RawStraightBad ==
    [id |-> 78, kind |-> "arrow-straight", x1 |-> JNum(0), y1 |-> JNull,
     x2 |-> JStr("abc"), y2 |-> JNum(0)]
RawCurve ==
    [kind |-> "arrow-curve",
     points |-> << [x |-> JNum(0), y |-> JNum(0)], [x |-> JNum(WorldUnit), y |-> JNum(0)] >>]
RawCurveOnePoint ==
    [kind |-> "arrow-curve", points |-> << [x |-> JNum(0), y |-> JNum(0)] >>]

ImportLists ==
    { << >>,
      << RawBall >>,
      << RawBallWithId, RawPlayerWithId >>,
      << RawPlayerWithId, RawPlayerWithId >>,
      << RawStraight, RawCurve >>,
      << RawCurveOnePoint, RawStraightBad, RawStraight >> }

ImportCameras == {[x |-> 3, y |-> 0, scale |-> 200]}

ImportPayloads ==
    {[parse |-> "error"], [parse |-> "null"],
     [parse |-> "object"],
     [parse |-> "object", elementsNotAList |-> TRUE]}
    \cup {[parse |-> "object", elements |-> l] : l \in ImportLists}
    \cup {[parse |-> "object", camera |-> c] : c \in ImportCameras}
    \cup {[parse |-> "object", elements |-> << RawBall >>, camera |-> c] :
            c \in ImportCameras}

ImportMutates(payload) == ~ParseFails(payload) /\ ~NormalizationFails(payload)

Init ==
    /\ elements = InitElements
    /\ history = << >>
    /\ isUndoing = FALSE
    /\ selectedId = NoId
    /\ ctxMenu = [open |-> FALSE, id |-> NoId]
    /\ camera = InitCamera
    /\ tool = "select"
    /\ currentArrowColor = "blueLine"
    /\ currentDashed = FALSE
    /\ previewArrow = NoPreview
    /\ drawState = NoDraw
    /\ isPanning = FALSE
    /\ lastPointer = NoPoint
    /\ spaceDown = FALSE
    /\ nextId = 10
    /\ nMut = 0
    /\ lastOp = "init"
    /\ lastArg = NoArg
    /\ pre = InitElements

\* The handlers of the document: spawning, dragging, the context panel,
\* deleting, importing, selecting and panning with the select tool; each
\* draws its inputs from the sets given.
DocOps(targets, movePoints, patches, payloads, buttons) ==
    \/ nMut < MaxMut /\ \E what \in {"player", "ball"} : SpawnClick(what)
    \/ \E type \in DropTypes :
            (type \in {"player", "ball"} => nMut < MaxMut) /\ Drop(type, DocPointer)
    \/ nMut < MaxMut /\ \E i \in targets, p \in movePoints : DragEnd(i, p.x, p.y)
    \/ \E i \in targets : OpenCtx(i)
    \/ nMut < MaxMut /\ \E patch \in patches : PanelPatch(patch)
    \/ nMut < MaxMut /\ PanelDelete
    \/ \E ed \in BOOLEAN :
            ((~ed /\ selectedId # NoId) => nMut < MaxMut) /\ DeleteKey(ed)
    \/ \E payload \in payloads :
            (ImportMutates(payload) => nMut < MaxMut) /\ ImportLoad(payload)
    \/ \E button \in buttons, where \in {"outside", "context"} :
            PointerDownOff(button, where)
    \/ \E button \in buttons, t \in {0} \cup targets : MouseDown(button, t, DocPointer)
    \/ MouseUp(DocPointer)

Next ==
    \/ DocOps(Targets, MovePoints, AllPatches, ImportPayloads, Buttons)
    \/ Undo

Spec == Init /\ [][Next]_vars

----------------------------------------------------------------------------
(* Long runs: the ball is dragged one world unit to the right again and    *)
(* again, with undos in between, until the history has overflowed.         *)

MaxMutLong == 53

BallAt(x) == [InitElements EXCEPT ![1].x = x]

DragBallRight ==
    /\ KindOf(elements[1]) = "ball"
    /\ DragEnd(1, elements[1].x + WorldUnit, 0)

NextLong ==
    \/ nMut < MaxMutLong /\ DragBallRight
    \/ Undo

SpecLong == Init /\ [][NextLong]_vars

----------------------------------------------------------------------------
(* Runs that start one entry short of a full history: the state after the  *)
(* ball was dragged one world unit to the right HISTORY_LIMIT - 1 times    *)
(* (a state SpecLong reaches), followed by the document's handlers on      *)
(* fewer inputs; undo is followed MaxWarmUndo entries below the limit.     *)

InitWarm ==
    /\ elements = BallAt((HISTORY_LIMIT - 1) * WorldUnit)
    /\ history = [k \in 1..(HISTORY_LIMIT - 1) |-> BallAt((k - 1) * WorldUnit)]
    /\ isUndoing = FALSE
    /\ selectedId = NoId
    /\ ctxMenu = closedCtx
    /\ camera = InitCamera
    /\ tool = "select"
    /\ currentArrowColor = "blueLine"
    /\ currentDashed = FALSE
    /\ previewArrow = NoPreview
    /\ drawState = NoDraw
    /\ isPanning = FALSE
    /\ lastPointer = NoPoint
    /\ spaceDown = FALSE
    /\ nextId = 10
    /\ nMut = 0
    /\ lastOp = "init"
    /\ lastArg = NoArg
    /\ pre = BallAt((HISTORY_LIMIT - 1) * WorldUnit)

MaxWarmUndo == 2

WarmTargets == {i \in Targets : IdOf(elements[i]) = 2}
WarmPayloads == {[parse |-> "error"], [parse |-> "object", elements |-> << RawBall >>]}

NextWarm ==
    \/ DocOps(WarmTargets, {Pt(0, 0)}, {[color |-> "red"]}, WarmPayloads, {0})
    \/ Len(history) >= HISTORY_LIMIT - MaxWarmUndo /\ Undo

SpecWarm == InitWarm /\ [][NextWarm]_vars

----------------------------------------------------------------------------
(* Gesture runs: the toolbox settings and the pointer on the canvas, up to *)
(* MaxMutDraw committed gestures.                                          *)

\* Points a curve gesture accumulates at most
MaxPts == 4

\* Panning is followed within MaxPanDraw pixels in the gesture runs.
MaxPanDraw == 0

MoveWithin(p) ==
    /\ LET c == CameraAfterMove(p)
       IN  c.x \in (-MaxPanDraw)..MaxPanDraw /\ c.y \in (-MaxPanDraw)..MaxPanDraw
    /\ drawState.kind = "arrow-curve" =>
          Len(CurvePointsAfterMove(drawState.points,
                                   worldFromPointer(p, camera), camera)) <= MaxPts

NextDraw ==
    \/ \E t \in Tools : SetTool(t)
    \/ nMut < MaxMutDraw /\ \E b \in Buttons, p \in Pointers : MouseDown(b, 0, p)
    \/ \E p \in Pointers : MoveWithin(p) /\ MouseMove(p)
    \/ \E p \in Pointers : MouseUp(p)
    \/ Undo

SpecDraw == Init /\ [][NextDraw]_vars

----------------------------------------------------------------------------
(* Curve runs: curve gestures, imports of curve records (point lists and   *)
(* legacy cubic records), drags and panel patches of curves, and undo, up  *)
(* to MaxMutCurve element updates.                                         *)

MaxMutCurve == 2

\* Screen points of the pointer in the curve runs
CurvePointers == {Pt(400, 300), Pt(408, 300)}

\* Imported curve records: a point list; one point and two points closer
\* than CURVE_POINT_EPSILON; a point at Infinity (1e999) and a legacy cubic;
\* a cubic whose four points coincide and one without its second control
\* point.
CurvePayloads ==
    LET P(x, y) == [x |-> JNum(x), y |-> JNum(y)]
        Curve(points) == [kind |-> "arrow-curve", points |-> points]
        Cubic(x2, c1, c2) ==
            [kind |-> "arrow-curve", x1 |-> JNum(0), y1 |-> JNum(0),
             cx1 |-> JNum(c1), cy1 |-> JNum(c1),
             cx2 |-> JNum(c2), cy2 |-> JNum(c1),
             x2 |-> JNum(x2), y2 |-> JNum(0)]
    IN  {[parse |-> "object", elements |-> l] :
            l \in { << RawCurve >>,
                    << RawCurveOnePoint, Curve(<< P(0, 0), P(6, 0) >>) >>,
                    << Curve(<< P(0, 0), P(Infinity, 0) >>),
                       Cubic(3 * WorldUnit, WorldUnit, 2 * WorldUnit) >>,
                    << Cubic(0, 0, 0),
                       [kind |-> "arrow-curve", x1 |-> JNum(0), y1 |-> JNum(0),
                        cx1 |-> JNum(0), cy1 |-> JNum(0),
                        x2 |-> JNum(0), y2 |-> JNum(0)] >> }}

CurveTargets == {i \in 1..Len(elements) : KindOf(elements[i]) = "arrow-curve"}

NextCurve ==
    \/ SetTool("arrow-curve")
    \/ nMut < MaxMutCurve /\ \E p \in CurvePointers : MouseDown(0, 0, p)
    \/ \E p \in CurvePointers : MoveWithin(p) /\ MouseMove(p)
    \/ \E p \in CurvePointers : MouseUp(p)
    \/ nMut < MaxMutCurve /\ \E payload \in CurvePayloads : ImportLoad(payload)
    \/ nMut < MaxMutCurve /\ \E i \in CurveTargets : DragEnd(i, WorldUnit, 0)
    \/ \E i \in CurveTargets : OpenCtx(i)
    \/ nMut < MaxMutCurve /\ PanelPatch([dashed |-> TRUE])
    \/ Undo

SpecCurve == Init /\ [][NextCurve]_vars

----------------------------------------------------------------------------
(* Camera runs: wheel zooms, digit keys, pans with the select tool,        *)
(* imports that carry a camera and undo, with the offsets followed within  *)
(* MaxCamOffset pixels and up to MaxMutCam imports.                        *)

MaxCamOffset == 10
MaxMutCam == 1

OffsetsWithin(cam) ==
    /\ IsFinite(cam.x) => cam.x \in (-MaxCamOffset)..MaxCamOffset
    /\ IsFinite(cam.y) => cam.y \in (-MaxCamOffset)..MaxCamOffset

CamPointers == {Pt(400, 300), Pt(410, 300)}

\* The camera fields of imported payloads: a scale in range, a scale out of
\* range, and a camera without a number as its scale, whose reads in
\* arithmetic give NaN.
CamPayloads ==
    {[parse |-> "object", camera |-> c] :
        c \in {[x |-> 3, y |-> 0, scale |-> 200],
               [x |-> 0, y |-> 0, scale |-> 1000],
               [x |-> 0, y |-> 0, scale |-> NaN]}}

NextCam ==
    \/ \E d \in BOOLEAN, p \in CamPointers : Wheel(d, p) /\ OffsetsWithin(camera')
    \/ \E key \in 1..5 : DigitKey(key, FALSE) /\ OffsetsWithin(camera')
    \/ \E p \in CamPointers : MouseDown(0, 0, p)
    \/ \E p \in CamPointers : MouseMove(p) /\ OffsetsWithin(camera')
    \/ \E p \in CamPointers : MouseUp(p)
    \/ nMut < MaxMutCam /\ \E payload \in CamPayloads : ImportLoad(payload)
    \/ Undo

SpecCam == Init /\ [][NextCam]_vars

----------------------------------------------------------------------------
(* cameraZoomTo on its own: it is applied to cameras, anchors, scales and  *)
(* viewports drawn from small sets, and again to the cameras it returns,   *)
(* MaxZoomCalls times in a run and while the offsets stay within           *)
(* MaxZoomOffset pixels.                                                   *)

MaxZoomCalls == 2
MaxZoomOffset == 400

InitZoom ==
    /\ camera \in {[x |-> x, y |-> y, scale |-> s] :
                      x \in {0, -30}, y \in {0, 20}, s \in {MinScale, 100, 150, MaxScale}}
    /\ elements = InitElements
    /\ history = << >>
    /\ isUndoing = FALSE
    /\ selectedId = NoId
    /\ ctxMenu = closedCtx
    /\ tool = "select"
    /\ currentArrowColor = "blueLine"
    /\ currentDashed = FALSE
    /\ previewArrow = NoPreview
    /\ drawState = NoDraw
    /\ isPanning = FALSE
    /\ lastPointer = NoPoint
    /\ spaceDown = FALSE
    /\ nextId = 10
    /\ nMut = 0
    /\ lastOp = "init"
    /\ lastArg = NoArg
    /\ pre = InitElements

\* One call of cameraZoomTo on the camera held; the call's arguments and its
\* exact result are recorded.
ZoomAround(anchor, newScale, viewport) ==
    LET to == cameraZoomTo(camera, anchor, newScale, viewport) IN
    /\ NoteArg("zoomAround", [from |-> camera, anchor |-> anchor,
                              newScale |-> newScale, viewport |-> viewport,
                              to |-> to])
    /\ camera' = StoredCamera(to)
    /\ camera'.x \in (-MaxZoomOffset)..MaxZoomOffset
    /\ camera'.y \in (-MaxZoomOffset)..MaxZoomOffset
    /\ nMut < MaxZoomCalls
    /\ nMut' = nMut + 1
    /\ UNCHANGED << elements, history, isUndoing, nextId, uiVars, toolVars,
                    gestureVars >>

NextZoom ==
    \E anchor \in {Pt(400, 300), Pt(0, 0), Pt(437, 111)},
       newScale \in {MinScale, 125, 200, MaxScale},
       viewport \in {vp, [w |-> 1024, h |-> 768]} :
        ZoomAround(anchor, newScale, viewport)

SpecZoom == InitZoom /\ [][NextZoom]_vars

----------------------------------------------------------------------------
(* prunePoints on its own: it is applied to every sequence of 2 to         *)
(* MaxPrunePts points of a small grid, and again to what it returns.       *)

MaxPrunePts == 4

\* Grid points: neighbours are 0.5 world units apart along an axis (within
\* CURVE_POINT_EPSILON, as is the diagonal), the far column 1 and 2 units.
PruneGrid == {Pt(x, y) : x \in {0, 6, 12, 24}, y \in {0, 6}}

PruneInputs ==
    UNION {[1..n -> PruneGrid] : n \in 2..MaxPrunePts}

InitPrune ==
    /\ lastArg \in {[input |-> P, output |-> P] : P \in PruneInputs}
    /\ lastOp = "init"
    /\ elements = InitElements
    /\ history = << >>
    /\ isUndoing = FALSE
    /\ selectedId = NoId
    /\ ctxMenu = closedCtx
    /\ camera = InitCamera
    /\ tool = "select"
    /\ currentArrowColor = "blueLine"
    /\ currentDashed = FALSE
    /\ previewArrow = NoPreview
    /\ drawState = NoDraw
    /\ isPanning = FALSE
    /\ lastPointer = NoPoint
    /\ spaceDown = FALSE
    /\ nextId = 10
    /\ nMut = 0
    /\ pre = InitElements

\* One call of prunePoints on the sequence held (the drawn input, then the
\* last output)
Simplify ==
    /\ lastOp' = "prunePoints"
    /\ lastArg' = [input |-> lastArg.output, output |-> prunePoints(lastArg.output)]
    /\ UNCHANGED << docVars, uiVars, camVars, toolVars, gestureVars, pre >>

SpecPrune == InitPrune /\ [][Simplify]_vars

----------------------------------------------------------------------------
(* Straight-arrow runs: the straight tool, the colour and dashed settings, *)
(* presses with the primary and the right button, moves and releases, up   *)
(* to MaxMutStraight committed arrows.                                     *)

MaxMutStraight == 2

\* Screen points of the pointer in the straight-arrow runs
StraightPointers == {Pt(400, 300), Pt(403, 300), Pt(403, 306)}

NextStraight ==
    \/ SetTool("arrow-straight")
    \/ \E c \in {"blueLine", "yellow"} : SetArrowColor(c)
    \/ \E d \in BOOLEAN : SetDashed(d)
    \/ nMut < MaxMutStraight /\ \E b \in {0, 2}, p \in StraightPointers : MouseDown(b, 0, p)
    \/ \E p \in StraightPointers : MoveWithin(p) /\ MouseMove(p)
    \/ \E p \in StraightPointers : MouseUp(p)

SpecStraight == Init /\ [][NextStraight]_vars

----------------------------------------------------------------------------
(* Pan runs: every tool, the Space key, presses with every button on the   *)
(* stage and on the ball's node, moves, releases and the context menu      *)
(* event on the ball's node, with the camera offsets followed within       *)
(* MaxPanOffset pixels, curve sessions up to MaxPanPts points and up to    *)
(* MaxMutPan committed arrows.                                             *)

MaxMutPan == 1
MaxPanPts == 2
MaxPanOffset == 5

\* Screen points of the pointer in the pan runs
PanPointers == {Pt(400, 300), Pt(405, 304)}

NextPan ==
    \/ \E t \in Tools : SetTool(t)
    \/ \E down \in BOOLEAN : SpaceKey(down, FALSE)
    \/ \E b \in Buttons, target \in {0, 1}, p \in PanPointers :
            /\ (tool # "select" /\ ~spaceDown /\ b # 1) => nMut < MaxMutPan
            /\ MouseDown(b, target, p)
    \/ \E p \in PanPointers :
            /\ drawState.kind = "arrow-curve" =>
                  Len(CurvePointsAfterMove(drawState.points,
                                           worldFromPointer(p, camera), camera)) <= MaxPanPts
            /\ MouseMove(p)
            /\ camera'.x \in (-MaxPanOffset)..MaxPanOffset
            /\ camera'.y \in (-MaxPanOffset)..MaxPanOffset
    \/ \E p \in PanPointers : MouseUp(p)
    \/ OpenCtx(1)

SpecPan == Init /\ [][NextPan]_vars

----------------------------------------------------------------------------
(* Keyboard runs: the Delete key, the digit keys and the Space key, each   *)
(* with the focus in an editable field and elsewhere, after presses that   *)
(* select the ball or a player or clear the selection, and undo, up to     *)
(* MaxMutKeys deletions.                                                   *)

MaxMutKeys == 2

NextKeys ==
    \/ \E ed \in BOOLEAN :
            ((~ed /\ selectedId # NoId) => nMut < MaxMutKeys) /\ DeleteKey(ed)
    \/ \E key \in 1..5, ed \in BOOLEAN : DigitKey(key, ed)
    \/ \E down \in BOOLEAN, ed \in BOOLEAN : SpaceKey(down, ed)
    \/ \E target \in 0..2 : MouseDown(0, target, DocPointer)
    \/ MouseUp(DocPointer)
    \/ Undo

SpecKeys == Init /\ [][NextKeys]_vars

----------------------------------------------------------------------------
(* Import runs: up to MaxMutNorm imports of a payload whose elements are   *)
(* up to MaxNormLen records: straight arrows with numbers, null, a         *)
(* boolean, strings, Infinity (1e999) or nothing as a coordinate, curves   *)
(* given as point lists, a ball, a player, records of another kind and of  *)
(* no kind, and a value that is no object.                                 *)

MaxMutNorm == 1
MaxNormLen == 3

NextNorm ==
    LET P(x, y) == [x |-> JNum(x), y |-> JNum(y)]
        Straight(x1, y1) ==
            [kind |-> "arrow-straight", x1 |-> x1, y1 |-> y1,
             x2 |-> JNum(WorldUnit), y2 |-> JNum(0), color |-> "green"]
        Records ==
            { RawStraight,
              [Straight(JNum(6), JNum(0)) EXCEPT !.color = "yellow"] @@ [id |-> 78],
              Straight(JNum(0), JNull),
              Straight(JBool(TRUE), JNum(0)),
              Straight(JStr("12"), JNum(0)),
              Straight(JStr("abc"), JNum(0)),
              Straight(JNum(Infinity), JNum(0)),
              [kind |-> "arrow-straight", x1 |-> JNum(0), y1 |-> JNum(0),
               x2 |-> JNum(WorldUnit)],
              RawCurve,
              RawCurveOnePoint,
              [id |-> 79, kind |-> "arrow-curve", color |-> "red",
               points |-> << P(0, 0), P(WorldUnit, 0), P(WorldUnit, 2 * WorldUnit) >>],
              [kind |-> "arrow-curve", points |-> << P(0, 0), P(6, 0) >>],
              [kind |-> "arrow-curve",
               points |-> << P(0, 0), P(Infinity, 0), [x |-> JNum(0)] >>],
              RawBall,
              RawPlayerWithId,
              [kind |-> "text", x |-> JNum(WorldUnit), label |-> "go"],
              [x |-> JNum(0), y |-> JNum(0)],
              [primitive |-> TRUE] }
        Lists == UNION {[1..n -> Records] : n \in 0..MaxNormLen}
    IN  /\ nMut < MaxMutNorm
        /\ \E l \in Lists : ImportLoad([parse |-> "object", elements |-> l])

SpecNorm == Init /\ [][NextNorm]_vars

----------------------------------------------------------------------------
(* Claims *)

\* What a history push leaves: the snapshot on top, the oldest entry gone
\* when the stack was full.
PushedOnto(h, snapshot) ==
    IF Len(h) < HISTORY_LIMIT THEN Append(h, snapshot)
    ELSE Append(Tail(h), snapshot)

ImportSucceeded(payload) ==
    payload.parse = "object" /\ "elementsNotAList" \notin DOMAIN payload

ImportFailed(payload) ==
    payload.parse \in {"error", "null"} \/ "elementsNotAList" \in DOMAIN payload

\* C1: an undo issued right after one handler that changed the element
\* sequence restores the sequence exactly as it was before that handler.
C1_UndoRestoresPrior ==
    [][(lastOp \notin {"init", "undo"} /\ elements # pre /\ lastOp' = "undo")
         => elements' = pre]_vars

\* C1 witness: one update was made and the undo after it brought the initial
\* board back.
C1_Witness ==
    lastOp = "undo" /\ nMut = 1 /\ pre # elements /\ elements = InitElements

\* C2: the history stack never holds more than HISTORY_LIMIT snapshots.
C2_HistoryBounded == Len(history) <= HISTORY_LIMIT

\* C2 witness: more updates than the limit were recorded and the stack is full.
C2_Witness == nMut > HISTORY_LIMIT /\ Len(history) = HISTORY_LIMIT

\* C3: every handler other than undo that changes the element sequence
\* pushes exactly one entry, the sequence as it was before the change; the
\* stack grows by one, or stays full with its oldest entry evicted.
C3_OnePushPerChange ==
    [][(lastOp' # "undo" /\ elements' # elements)
         => history' = PushedOnto(history, elements)]_vars

\* C3 witness: a change was recorded on a full stack, whose oldest entry
\* is gone.
C3_Witness ==
    /\ lastOp \notin {"init", "undo"}
    /\ elements # pre
    /\ Len(history) = HISTORY_LIMIT
    /\ history[HISTORY_LIMIT] = pre
    /\ history[1] # BallAt(0)

\* C4 (as claimed): a move, patch or delete that leaves the element sequence
\* equal to what it was records no history entry.
C4_NoOpRecordsNothing ==
    [][(lastOp' \in {"dragEnd", "patch", "delete"} /\ elements' = elements)
         => history' = history]_vars

\* C5: in the long runs every entry of the stack is the board as it was
\* before one of the latest drags, oldest first (the entry i places below
\* the top holds the ball i + 1 drags back); once more drags than the limit
\* were made without an undo the stack holds exactly the last HISTORY_LIMIT
\* of them; an undo pops the newest entry and makes it the live sequence, and
\* with no entry left it changes nothing.
C5_StackOrder ==
    /\ \A i \in 1..Len(history) :
           history[i] = BallAt(elements[1].x - (Len(history) - i + 1) * WorldUnit)
    /\ (nMut > HISTORY_LIMIT /\ elements[1].x = nMut * WorldUnit)
           => Len(history) = HISTORY_LIMIT

C5_UndoStep ==
    lastOp' = "undo" =>
        IF history = << >> THEN UNCHANGED << elements, history >>
        ELSE /\ elements' = history[Len(history)]
             /\ history' = SubSeq(history, 1, Len(history) - 1)

C5_EvictOldestPopNewest == [](C5_StackOrder) /\ [][C5_UndoStep]_vars

\* C5 witness: 51 drags, 50 undos back to the board before the second drag
\* (the board before the first was evicted), and one more undo that changed
\* nothing.
C5_Witness ==
    /\ nMut = HISTORY_LIMIT + 1
    /\ lastOp = "undo"
    /\ history = << >>
    /\ pre = elements
    /\ elements = BallAt(WorldUnit)

\* C6: undo with an empty history changes neither the element sequence, nor
\* the history, nor the camera, nor the selection.
C6_UndoOnEmpty ==
    [][(lastOp' = "undo" /\ history = << >>)
         => UNCHANGED << elements, history, camera, selectedId >>]_vars

\* C6 witness: an undo that found nothing to pop, with an element selected.
C6_Witness ==
    lastOp = "undo" /\ nMut = 0 /\ history = << >> /\ selectedId # NoId

\* C7: a Load whose text does not parse, or whose payload makes normalization
\* fail, leaves element sequence, history, camera and selection as they were.
C7_FailedImport ==
    [][(lastOp' = "import" /\ ImportFailed(lastArg'))
         => UNCHANGED << elements, history, camera, selectedId >>]_vars

\* C7 witness: a Load of a payload whose elements are no list, on a board
\* with a selection and a recorded history.
C7_Witness ==
    /\ lastOp = "import"
    /\ "elementsNotAList" \in DOMAIN lastArg
    /\ selectedId # NoId
    /\ history # << >>

\* C8: a successful Load pushes the element sequence it found onto the
\* history, stores the normalized elements of the payload (none when the
\* payload has no elements field) and clears the selection; an undo right
\* after it restores the sequence the Load found.
C8_ImportStep ==
    (lastOp' = "import" /\ ImportSucceeded(lastArg')) =>
        /\ history' = PushedOnto(history, elements)
        /\ elements' =
               normalizeImportedElements(
                   IF "elements" \in DOMAIN lastArg' THEN lastArg'.elements ELSE << >>,
                   nextId).els
        /\ "elements" \notin DOMAIN lastArg' => elements' = << >>
        /\ selectedId' = NoId

C8_UndoAfterImport ==
    (lastOp = "import" /\ ImportSucceeded(lastArg) /\ lastOp' = "undo")
        => elements' = pre

C8_SuccessfulImport == [][C8_ImportStep /\ C8_UndoAfterImport]_vars

\* C8 witness: a Load of two records as the second update, the board it
\* found on top of the history.
C8_Witness ==
    /\ lastOp = "import"
    /\ ImportSucceeded(lastArg)
    /\ Len(elements) = 2
    /\ Len(history) = 2
    /\ history[2] = pre
    /\ selectedId = NoId

\* C9 (as claimed): exporting the element sequence and normalizing the
\* parsed export gives back the element sequence.
C9_RoundTrip ==
    normalizeImportedElements(ExportElements(elements), nextId).els
        = cloneElements(elements)

\* C10 (as claimed): every live element has an id and no two share one.
C10_IdsUnique ==
    /\ \A i \in 1..Len(elements) : "id" \in DOMAIN elements[i]
    /\ \A i, j \in 1..Len(elements) :
           i # j => IdOf(elements[i]) # IdOf(elements[j])

CurvesOf(els) == {i \in 1..Len(els) : KindOf(els[i]) = "arrow-curve"}

\* C11: every curve arrow of the live element sequence and of every history
\* snapshot has at least 2 points.
C11_CurvesHaveTwoPoints ==
    /\ \A i \in CurvesOf(elements) : Len(elements[i].points) >= 2
    /\ \A k \in 1..Len(history) :
           \A i \in CurvesOf(history[k]) : Len(history[k][i].points) >= 2

\* C11 witness: a curve imported from a legacy cubic record whose points
\* coincide sits in the newest snapshot, and the live sequence, made by a
\* curve gesture after that import, holds it and the gesture's curve.
C11_Witness ==
    /\ lastOp = "mouseUp"
    /\ Len(history) = 2
    /\ CurvesOf(history[2]) # {}
    /\ \E i \in CurvesOf(history[2]) :
           history[2][i].points = << Pt(0, 0), Pt(0, 0) >>
    /\ \E i \in CurvesOf(elements) : IdOf(elements[i]) = nextId - 1

\* C12 (as claimed): the camera scale lies in [0.2, 4.0].
C12_ScaleInRange == camera.scale \in MinScale..MaxScale

\* C13 (as claimed): a wheel event sets the camera scale to the current
\* scale divided (scrolling down) or multiplied (otherwise) by the step,
\* clamped, and the resulting scale lies in [0.2, 4.0] whatever the camera
\* was.
C13_WheelStepClamped ==
    [][lastOp' = "wheel" =>
          /\ camera'.scale =
                 clamp(WheelTarget(camera.scale, lastArg'.deltaYPositive),
                       MinScale, MaxScale)
          /\ camera'.scale \in MinScale..MaxScale]_vars

FracEq(p, q) == p.n * q.d = q.n * p.d

\* The world coordinate (screen - viewport / 2 - offset) / scale under a
\* screen coordinate, for an offset on the pixel grid and for an exact one
WorldUnderStored(screen, half, offset, scale) == Frac(screen - half - offset, scale)
WorldUnderExact(screen, half, offset, scale) ==
    Frac((screen - half) * offset.d - offset.n, offset.d * scale)

\* C14: the camera cameraZoomTo returns has the requested scale, and the
\* world point under the anchor screen point is the same under the returned
\* camera as under the camera given.
C14_AnchorInvariant ==
    lastOp = "zoomAround" =>
        LET a == lastArg IN
        /\ a.to.scale = a.newScale
        /\ FracEq(WorldUnderExact(a.anchor.x, a.viewport.w \div 2, a.to.x, a.to.scale),
                  WorldUnderStored(a.anchor.x, a.viewport.w \div 2, a.from.x, a.from.scale))
        /\ FracEq(WorldUnderExact(a.anchor.y, a.viewport.h \div 2, a.to.y, a.to.scale),
                  WorldUnderStored(a.anchor.y, a.viewport.h \div 2, a.from.y, a.from.scale))

\* C14 witness: a zoom from scale 1.5 to 4.0 about an anchor off the
\* viewport centre, with a camera off the origin; the offsets changed.
C14_Witness ==
    /\ lastOp = "zoomAround"
    /\ lastArg.from = [x |-> -30, y |-> 20, scale |-> 150]
    /\ lastArg.anchor = Pt(437, 111)
    /\ lastArg.newScale = MaxScale
    /\ lastArg.viewport = vp
    /\ camera.scale = MaxScale
    /\ camera.x # -30 /\ camera.y # 20

\* C15 (as claimed): pruning a pruned point sequence changes nothing.
C15_PruneIdempotent ==
    lastOp = "prunePoints" => prunePoints(lastArg.output) = lastArg.output

\* C16: prunePoints returns at least 2 points for an input of at least 2
\* points, and the first two input points when its pass keeps fewer than 2.
C16_PruneKeepsTwo ==
    (lastOp = "prunePoints" /\ Len(lastArg.input) >= 2) =>
        /\ Len(lastArg.output) >= 2
        /\ Len(PruneFrom(lastArg.input, 1, << >>, CURVE_POINT_EPSILON)) < 2
               => lastArg.output = SubSeq(lastArg.input, 1, 2)

\* C16 witness: four points, each within the epsilon of the one before, are
\* pruned to the first two of them.
C16_Witness ==
    /\ lastOp = "prunePoints"
    /\ lastArg.input = << Pt(0, 0), Pt(6, 0), Pt(12, 0), Pt(12, 6) >>
    /\ lastArg.output = << Pt(0, 0), Pt(6, 0) >>

\* The draw session was opened by a press at screen point p and has seen no
\* move since.
OpenedAt(p) ==
    LET world == worldFromPointer(p, camera) IN
    \/ drawState.kind = "arrow-straight" /\ drawState.start = world
    \/ drawState.kind = "arrow-curve" /\ drawState.points = << world >>

\* C17 (as claimed): a release at the screen point of the press that opened
\* the draw session, with no move in between, creates no element and
\* records no history entry.
C17_ZeroLengthDiscarded ==
    [][(lastOp = "mouseDown" /\ lastOp' = "mouseUp"
          /\ lastArg' = Pt(lastArg.x, lastArg.y) /\ OpenedAt(lastArg))
         => elements' = elements /\ history' = history]_vars

\* C18: after every handler, with the selection repair run, the selected id
\* is empty or the id of an element of the live sequence.
C18_SelectionNotDangling == selectedId = NoId \/ HasId(elements, selectedId)

\* C18 witness: an undo changed the element sequence and the selection
\* names an element that is still there.
C18_Witness ==
    lastOp = "undo" /\ elements # pre /\ selectedId # NoId

\* C19: a delete of the selected element leaves the selection empty; an
\* undo right after it restores the element sequence and leaves the
\* selection empty; and no undo sets the selection to anything but what it
\* was or empty.
C19_DeleteStep ==
    (lastOp' = "delete" /\ lastArg' # NoArg /\ lastArg'.selected = lastArg'.id)
        => selectedId' = NoId /\ ~HasId(elements', lastArg'.id)

C19_UndoStep ==
    /\ (lastOp = "delete" /\ lastArg # NoArg /\ lastArg.selected = lastArg.id
          /\ lastOp' = "undo")
           => elements' = pre /\ HasId(elements', lastArg.id) /\ selectedId' = NoId
    /\ lastOp' = "undo" => selectedId' \in {selectedId, NoId}

C19_DeleteSelectedThenUndo == [][C19_DeleteStep /\ C19_UndoStep]_vars

\* C19 witness: the selected element was deleted; it is gone and the
\* selection is empty.
C19_Witness ==
    /\ lastOp = "delete"
    /\ lastArg # NoArg
    /\ lastArg.selected = lastArg.id
    /\ lastArg.id # NoId
    /\ HasId(pre, lastArg.id)
    /\ ~HasId(elements, lastArg.id)
    /\ selectedId = NoId

\* C20 (as claimed): panning and a draw session are never active together.
C20_OneGestureAtATime == ~(isPanning /\ drawState.kind # "none")


\* A curve gesture was released and committed a curve in this step.
CurveCommitted ==
    /\ lastOp' = "mouseUp"
    /\ drawState.kind = "arrow-curve"
    /\ Len(elements') = Len(elements) + 1

\* C21 (as claimed): the last point of a curve committed by a gesture is the
\* world point under the pointer at the release.
C21_LastPointIsRelease ==
    [][CurveCommitted =>
          LET points == elements'[Len(elements')].points
          IN  points[Len(points)] = worldFromPointer(lastArg', camera)]_vars

\* C25 (as claimed): the first point of a curve committed by a gesture is the
\* world point under the pointer at the press, which the session holds as
\* its first point throughout.
C25_FirstPointIsPress ==
    [][CurveCommitted =>
          elements'[Len(elements')].points[1] = drawState.points[1]]_vars

StraightArrow(id, from, to) ==
    [id |-> id, kind |-> "arrow-straight",
     x1 |-> from.x, y1 |-> from.y, x2 |-> to.x, y2 |-> to.y,
     color |-> currentArrowColor, dashed |-> currentDashed]

\* C22: with the straight tool a primary press at screen point p opens a
\* session whose start S is the world point under p, with no preview; every
\* move of the session (no pan being active) sets the preview to the arrow
\* from S to the world point under the pointer and leaves session and
\* elements alone; the
\* release at a world point E other than S appends the one arrow from S to E
\* in the chosen colour and dashed flag under an id no element or snapshot
\* holds, clears the preview and ends session and panning.
C22_PressStep ==
    (lastOp' = "mouseDown" /\ lastArg'.button = 0 /\ tool = "arrow-straight"
       /\ ~spaceDown)
        => /\ drawState' = [kind |-> "arrow-straight",
                            start |-> worldFromPointer(lastArg', camera)]
           /\ previewArrow' = NoPreview
           /\ elements' = elements

C22_MoveStep ==
    (lastOp' = "mouseMove" /\ drawState.kind = "arrow-straight" /\ ~isPanning)
        => /\ previewArrow' = StraightArrow(PreviewId, drawState.start,
                                            worldFromPointer(lastArg', camera))
           /\ drawState' = drawState
           /\ elements' = elements

C22_ReleaseStep ==
    (lastOp' = "mouseUp" /\ drawState.kind = "arrow-straight"
       /\ drawState.start # worldFromPointer(lastArg', camera))
        => /\ elements' = Append(elements,
                                 StraightArrow(nextId, drawState.start,
                                               worldFromPointer(lastArg', camera)))
           /\ ~HasId(elements, nextId)
           /\ \A k \in 1..Len(history) : ~HasId(history[k], nextId)
           /\ previewArrow' = NoPreview
           /\ drawState' = NoDraw
           /\ isPanning' = FALSE

C22_StraightGesture == [][C22_PressStep /\ C22_MoveStep /\ C22_ReleaseStep]_vars

\* C22 witness: a dashed yellow arrow from world (0, 0) to the world point
\* under (403, 306) was committed by a gesture that had shown its preview.
C22_Witness ==
    /\ lastOp = "mouseUp"
    /\ lastArg = Pt(403, 306)
    /\ Len(elements) = Len(InitElements) + 1
    /\ elements[Len(elements)] =
           [id |-> 10, kind |-> "arrow-straight", x1 |-> 0, y1 |-> 0,
            x2 |-> 24, y2 |-> 48, color |-> "yellow", dashed |-> TRUE]
    /\ previewArrow = NoPreview
    /\ drawState = NoDraw

\* C23: a primary press on the empty canvas with the select tool, a middle
\* press on the canvas or on a node with any tool, and a primary press with
\* Space held with any tool each start panning from the pressed screen point,
\* the last opening no draw session; while panning, a move to screen point p
\* adds p minus the previous pointer position to the camera offset and makes
\* p the previous position; a release ends panning and leaves no session
\* open.
C23_EnterStep ==
    LET a == lastArg' IN
    lastOp' = "mouseDown" =>
        /\ ( \/ a.button = 0 /\ a.target = 0 /\ tool = "select"
             \/ a.button = 1
             \/ a.button = 0 /\ spaceDown )
              => isPanning' /\ lastPointer' = Pt(a.x, a.y)
        /\ (a.button = 0 /\ spaceDown)
              => drawState' = drawState /\ previewArrow' = previewArrow

C23_MoveStep ==
    (lastOp' = "mouseMove" /\ isPanning) =>
        /\ lastPointer # NoPoint
        /\ camera' = [camera EXCEPT !.x = @ + (lastArg'.x - lastPointer.x),
                                    !.y = @ + (lastArg'.y - lastPointer.y)]
        /\ lastPointer' = lastArg'
        /\ isPanning'

C23_ReleaseStep ==
    lastOp' = "mouseUp" =>
        /\ ~isPanning'
        /\ lastPointer' = NoPoint
        /\ drawState' = NoDraw
        /\ previewArrow' = NoPreview
        /\ camera' = camera

C23_Panning == [][C23_EnterStep /\ C23_MoveStep /\ C23_ReleaseStep]_vars

\* C23 witness: with the curve tool and Space held, a primary press on the
\* ball's node started a pan that has moved the camera 5 px right and 4 px
\* down, and no draw session is open.
C23_Witness ==
    /\ lastOp = "mouseMove"
    /\ tool = "arrow-curve"
    /\ spaceDown
    /\ isPanning
    /\ camera = [x |-> 5, y |-> 4, scale |-> 150]
    /\ drawState = NoDraw
    /\ selectedId = 1

\* C24 (as claimed): with a draw tool chosen and Space not held, a press with
\* a button other than the primary one opens no draw session and leaves the
\* preview alone, and the release right after it adds no element.
C24_OnlyPrimaryDraws ==
    [][/\ (lastOp' = "mouseDown" /\ lastArg'.button # 0 /\ ~spaceDown
             /\ tool \in {"arrow-straight", "arrow-curve"})
            => drawState' = drawState /\ previewArrow' = previewArrow
       /\ (lastOp = "mouseDown" /\ lastArg.button # 0 /\ ~spaceDown
             /\ tool \in {"arrow-straight", "arrow-curve"} /\ lastOp' = "mouseUp")
            => elements' = elements]_vars

\* C26: a preview arrow is present only while a draw session is open, and
\* it is no member of the live element sequence nor of any history snapshot.
C26_PreviewOnlyWhileDrawing ==
    /\ previewArrow # NoPreview => drawState # NoDraw
    /\ \A i \in 1..Len(elements) : elements[i] # previewArrow
    /\ \A k \in 1..Len(history) : \A i \in 1..Len(history[k]) :
           history[k][i] # previewArrow

\* C26 witness: a curve session shows a preview of three points while the
\* element sequence is the initial board.
C26_Witness ==
    /\ lastOp = "mouseMove"
    /\ drawState.kind = "arrow-curve"
    /\ previewArrow # NoPreview
    /\ previewArrow.id = PreviewId
    /\ Len(previewArrow.points) = 3
    /\ elements = InitElements

\* C27: a drag end or a panel patch addressed to id X keeps the length of
\* the element sequence and the id and kind at every position, and leaves
\* every element whose id is not X as it was; a delete of id X leaves
\* exactly the elements whose id is not X, in their order and unchanged.
C27_MoveOrPatchStep ==
    LET X == IF lastOp' = "patch" THEN ctxMenu.id ELSE lastArg'.id IN
    lastOp' \in {"dragEnd", "patch"} =>
        /\ Len(elements') = Len(elements)
        /\ \A i \in 1..Len(elements) :
               /\ IdOf(elements'[i]) = IdOf(elements[i])
               /\ KindOf(elements'[i]) = KindOf(elements[i])
               /\ IdOf(elements[i]) # X => elements'[i] = elements[i]

C27_DeleteStep ==
    (lastOp' = "delete" /\ lastArg' # NoArg) =>
        elements' = SelectSeq(elements, LAMBDA e : IdOf(e) # lastArg'.id)

C27_FrameOfMutators == [][C27_MoveOrPatchStep /\ C27_DeleteStep]_vars

\* C27 witness: of an imported ball and an imported red player the player
\* was recoloured by a patch, and the ball is as it was.
C27_Witness ==
    /\ lastOp = "patch"
    /\ lastArg = [color |-> "blue"]
    /\ Len(elements) = 2
    /\ elements[1] = pre[1]
    /\ KindOf(elements[1]) = "ball"
    /\ IdOf(elements[2]) = IdOf(pre[2])
    /\ pre[2].color = "red"
    /\ elements[2] = [pre[2] EXCEPT !.color = "blue"]

\* The element sequence grew by one element of the kind given, at the end,
\* at world point w, under an id that no element had.
SpawnedAt(kind, w) ==
    /\ Len(elements') = Len(elements) + 1
    /\ SubSeq(elements', 1, Len(elements)) = elements
    /\ LET new == elements'[Len(elements')]
       IN  /\ new.kind = kind
           /\ new.x = w.x /\ new.y = w.y
           /\ ~HasId(elements, new.id)

\* C28: a toolbox click appends one element of the kind clicked at world
\* (0, 0); a drop tagged player or ball appends one element of that kind at
\* the world point under the drop point for the current camera; both give
\* it a fresh id and leave the elements there were in place; a drop with any
\* other tag changes neither the element sequence nor the history.
C28_SpawnStep ==
    /\ lastOp' = "spawnClick" => SpawnedAt(lastArg', Pt(0, 0))
    /\ (lastOp' = "drop" /\ lastArg'.type \in {"player", "ball"})
           => SpawnedAt(lastArg'.type, worldFromPointer(lastArg', camera))
    /\ (lastOp' = "drop" /\ lastArg'.type \notin {"player", "ball"})
           => elements' = elements /\ history' = history

C28_Spawn == [][C28_SpawnStep]_vars

\* C28 witness: after an import that set the camera to offset 3 and scale 2,
\* a player was dropped at (403, 300), the world origin under that camera,
\* behind the ball the import had stored.
C28_Witness ==
    /\ lastOp = "drop"
    /\ lastArg.type = "player"
    /\ camera = [x |-> 3, y |-> 0, scale |-> 200]
    /\ Len(elements) = 2
    /\ elements[1] = pre[1]
    /\ elements[2] = [id |-> 10, kind |-> "player", x |-> 0, y |-> 0,
                      color |-> "blue"]

\* C29 (as claimed): a press with any button outside the canvas and outside
\* the context panel empties the selection and leaves the panel closed; a
\* press inside the shown panel changes neither panel nor selection.
C29_PressOutside ==
    [][lastOp' = "pointerDown" =>
          /\ lastArg'.where = "outside"
                => selectedId' = NoId /\ ~ctxMenu'.open
          /\ lastArg'.where = "context"
                => UNCHANGED << ctxMenu, selectedId >>]_vars

\* C30 (as claimed): a right-click on the node of an element (the press and
\* the release of the right button on it, and the context menu event) opens
\* the panel on that element's id and changes neither the selection, nor the
\* element sequence, nor the history, with every tool; and the panel is
\* shown only while an element carries its target id.
C30_RightClickStep ==
    /\ (lastOp' = "mouseDown" /\ lastArg'.button = 2 /\ lastArg'.target # 0)
           => UNCHANGED << selectedId, elements, history >>
    /\ (lastOp = "mouseDown" /\ lastArg.button = 2 /\ lastArg.target # 0
          /\ lastOp' = "mouseUp")
           => UNCHANGED << selectedId, elements, history >>
    /\ lastOp' = "openCtx"
           => /\ ctxMenu'.open /\ HasId(elements, ctxMenu'.id)
              /\ UNCHANGED << selectedId, elements, history >>
    /\ PanelShown' => HasId(elements', ctxMenu'.id)

C30_RightClickOpensPanel == [][C30_RightClickStep]_vars

\* C31: the digit keys 1 to 5 set the camera scale to 1.25, 1.5, 2, 2.25 and
\* 2.5 whatever the camera was; from a camera whose scale and offsets are
\* numbers, the new offset is the old one times new scale over old scale (to
\* the pixel), which keeps the world point -offset / scale under the
\* viewport centre; nothing but the camera and the key enters.
C31_DigitStep ==
    lastOp' = "digitKey" =>
        /\ camera'.scale = CASE lastArg'.key = 1 -> 125 [] lastArg'.key = 2 -> 150
                             [] lastArg'.key = 3 -> 200 [] lastArg'.key = 4 -> 225
                             [] lastArg'.key = 5 -> 250
        /\ (IsFinite(camera.scale) /\ IsFinite(camera.x) /\ IsFinite(camera.y))
              => /\ camera'.x = RoundDiv(camera.x * camera'.scale, camera.scale)
                 /\ camera'.y = RoundDiv(camera.y * camera'.scale, camera.scale)

C31_DigitKeysPreset == [][C31_DigitStep]_vars

\* C31 witness: from the imported camera with offset 3 and scale 2, key 5
\* set the scale to 2.5 and the offset to 3.75, stored as 4.
C31_Witness ==
    /\ lastOp = "digitKey"
    /\ lastArg.key = 5
    /\ camera = [x |-> 4, y |-> 0, scale |-> 250]

\* C32 (as claimed): with the focus in an editable field, a press of Delete
\* (which then records no deletion), of a digit key 1 to 5 or of Space
\* changes neither the element sequence, nor the camera, nor the Space-held
\* flag.
C32_KeysInEditableField ==
    [][( \/ lastOp' = "delete" /\ lastArg' = NoArg
         \/ lastOp' \in {"digitKey", "spaceDown"} /\ lastArg'.editable )
         => UNCHANGED << elements, camera, spaceDown >>]_vars

\* C33: the camera and the history are independent.  An undo changes neither
\* the camera, the tool mode nor the draw settings, and when there is a
\* snapshot it puts the element sequence back to the newest one (so an undo
\* after an import restores the elements and keeps the imported camera); a
\* wheel zoom, a digit-key zoom and the press, moves and release of a pan
\* (with no draw session open at the same time) change neither the element
\* sequence nor the history.
C33_UndoStep ==
    lastOp' = "undo" =>
        /\ UNCHANGED << camera, tool, currentArrowColor, currentDashed >>
        /\ history # << >> => /\ elements' = history[Len(history)]
                              /\ history' = SubSeq(history, 1, Len(history) - 1)

C33_CameraStep ==
    ( \/ lastOp' \in {"wheel", "digitKey"}
      \/ lastOp' = "mouseDown" /\ isPanning' /\ drawState = NoDraw
      \/ lastOp' \in {"mouseMove", "mouseUp"} /\ isPanning /\ drawState = NoDraw )
        => UNCHANGED << elements, history >>

C33_CameraAndHistory == [][C33_UndoStep /\ C33_CameraStep]_vars

\* An undo after the import of a payload with the camera (3, 0) at scale 2,
\* then zoomed by the wheel: the initial elements are back, the history is
\* empty and the camera is the zoomed imported one.
C33_Witness ==
    /\ lastOp = "undo"
    /\ lastArg = NoArg
    /\ elements = InitElements
    /\ history = << >>
    /\ nMut = 1
    /\ camera.scale > 200

\* s is t with some points left out: its points are points of t, in t's
\* order.
IsSubsequence(s, t) ==
    \E f \in [1..Len(s) -> 1..Len(t)] :
        /\ \A a, b \in 1..Len(s) : a < b => f[a] < f[b]
        /\ \A k \in 1..Len(s) : s[k] = t[f[k]]

\* The input points the keep-or-replace rule leaves in the output: the point
\* kept last is always the point taken last, so a point is replaced exactly
\* when the next one is within epsilon of it.
RuleKeeps(points) ==
    {i \in 1..Len(points) :
        \/ i = Len(points)
        \/ Dist2(points[i + 1], points[i]) > CURVE_POINT_EPSILON * CURVE_POINT_EPSILON}

RuleOutput(points) ==
    LET I == RuleKeeps(points)
    IN  [k \in 1..Cardinality(I) |->
            points[CHOOSE i \in I : Cardinality({j \in I : j <= i}) = k]]

\* C34 (as claimed): for every input the output of prunePoints is an
\* order-preserving subsequence of the input, and it is what the rule
\* "a point becomes a new output point only if it is more than epsilon from
\* the last kept point, otherwise it replaces the last kept point" leaves.
C34_RuleForEveryInput ==
    lastOp = "prunePoints" =>
        /\ IsSubsequence(lastArg.output, lastArg.input)
        /\ lastArg.output = RuleOutput(lastArg.input)

\* C34 (amended): for every input the output of prunePoints is an
\* order-preserving subsequence of the input; it is what the keep-or-replace
\* rule leaves whenever that is at least 2 points, and the first two input
\* points otherwise.
C34_SubsequenceByRule ==
    lastOp = "prunePoints" =>
        /\ IsSubsequence(lastArg.output, lastArg.input)
        /\ lastArg.output =
              IF Cardinality(RuleKeeps(lastArg.input)) >= 2
              THEN RuleOutput(lastArg.input)
              ELSE SubSeq(lastArg.input, 1, 2)

\* C34 witness: of four points the second is within epsilon of the first and
\* replaces it, the third is beyond epsilon and is kept as a new point, the
\* fourth is within epsilon of the third and replaces it.
C34_Witness ==
    /\ lastOp = "prunePoints"
    /\ lastArg.input = << Pt(0, 0), Pt(6, 0), Pt(24, 0), Pt(24, 6) >>
    /\ lastArg.output = << Pt(6, 0), Pt(24, 6) >>

\* The records of a sequence that are straight arrows
StraightsOf(s) == SelectSeq(s, LAMBDA e : KindOf(e) = "arrow-straight")

\* A straight-arrow record whose four coordinates are finite numbers
HasFiniteCoordinates(raw) ==
    \A f \in {"x1", "y1", "x2", "y2"} :
        IsNumber(Field(raw, f)) /\ IsFinite(Field(raw, f).n)

\* C35 (as claimed): after an import the straight arrows of the board are
\* the imported straight-arrow records whose x1, y1, x2 and y2 are all
\* finite numbers, in order and with these coordinates, each with one of the
\* three arrow colours; every other straight-arrow record is discarded.
C35_StraightNeedsFiniteNumbers ==
    lastOp = "import" =>
        LET kept == SelectSeq(StraightsOf(lastArg.elements), HasFiniteCoordinates)
            out == StraightsOf(elements)
        IN  /\ Len(out) = Len(kept)
            /\ \A k \in 1..Len(out) :
                  /\ \A f \in {"x1", "y1", "x2", "y2"} : out[k][f] = kept[k][f].n
                  /\ out[k].color \in ArrowColors

\* The curve records (or curves) of a sequence
CurveSeq(s) == SelectSeq(s, LAMBDA e : KindOf(e) = "arrow-curve")

\* The points of a point-list record that are valid after the coercion:
\* both coordinates, coerced to numbers with anything that is no number
\* taken as 0, are finite.
ValidPoints(raw) ==
    SelectSeq(raw.points,
              LAMBDA p : /\ IsFinite(NumberOrZero(Field(p, "x")))
                         /\ IsFinite(NumberOrZero(Field(p, "y"))))

\* A point list of finite numbers whose consecutive points are all more
\* than epsilon apart
AllApart(raw) ==
    /\ \A i \in 1..Len(raw.points) :
          \A f \in {"x", "y"} :
              IsNumber(Field(raw.points[i], f)) /\ IsFinite(Field(raw.points[i], f).n)
    /\ \A i \in 1..(Len(raw.points) - 1) :
          Dist2(Pt(raw.points[i + 1].x.n, raw.points[i + 1].y.n),
                Pt(raw.points[i].x.n, raw.points[i].y.n))
              > CURVE_POINT_EPSILON * CURVE_POINT_EPSILON

\* C36: after an import of curve records given as point lists, the curves of
\* the board are the records with at least 2 valid points, in order (a
\* record with fewer is dropped); a record whose consecutive points are all
\* more than epsilon apart has every point unchanged and in order; a kept
\* record has the id of its record when that has one, and otherwise an id
\* that no element of the board before, no imported record and no other
\* element of the board has.
C36_CurvePointLists ==
    lastOp = "import" =>
        LET kept == SelectSeq(CurveSeq(lastArg.elements),
                              LAMBDA raw : Len(ValidPoints(raw)) >= 2)
            out == CurveSeq(elements)
            given == {lastArg.elements[i].id :
                         i \in {j \in 1..Len(lastArg.elements) :
                                   "id" \in DOMAIN lastArg.elements[j]}}
        IN  /\ Len(out) = Len(kept)
            /\ \A k \in 1..Len(out) :
                  /\ Len(out[k].points) >= 2
                  /\ AllApart(kept[k]) =>
                        out[k].points =
                            [i \in 1..Len(kept[k].points) |->
                                Pt(kept[k].points[i].x.n, kept[k].points[i].y.n)]
                  /\ IF "id" \in DOMAIN kept[k] THEN out[k].id = kept[k].id
                     ELSE /\ out[k].id \notin Ids(pre) \cup given
                          /\ \A i \in 1..Len(elements) :
                                (elements[i] # out[k]) => IdOf(elements[i]) # out[k].id

\* C36 witness: an import of a curve of one point, a curve with id 79 and
\* three points far apart, and a curve of two points without an id leaves
\* the second with its id and points and the third with a fresh id.
C36_Witness ==
    /\ lastOp = "import"
    /\ Len(lastArg.elements) = 3
    /\ lastArg.elements[1] = RawCurveOnePoint
    /\ Len(elements) = 2
    /\ KindOf(elements[1]) = "arrow-curve" /\ KindOf(elements[2]) = "arrow-curve"
    /\ elements[1].id = 79
    /\ elements[1].points = << Pt(0, 0), Pt(WorldUnit, 0), Pt(WorldUnit, 2 * WorldUnit) >>
    /\ elements[2].id = 10
    /\ elements[2].points = << Pt(0, 0), Pt(WorldUnit, 0) >>

\* A parsed record that is an object and neither a straight nor a curve arrow
IsOtherRecord(raw) ==
    /\ "primitive" \notin DOMAIN raw
    /\ KindOf(raw) \notin {"arrow-straight", "arrow-curve"}

\* The element has the fields of the record, with the record's values.
SameFields(el, raw) ==
    /\ DOMAIN el = DOMAIN raw
    /\ \A f \in DOMAIN raw :
          el[f] = IF f \in TaggedFields THEN Untagged(raw[f]) ELSE raw[f]

\* The element can come from the record: the kinds agree, a record that is
\* no arrow has all its fields unchanged, an arrow has the record's id when
\* that has one.
ComesFrom(el, raw) ==
    /\ "primitive" \notin DOMAIN raw
    /\ KindOf(el) = KindOf(raw)
    /\ IF IsOtherRecord(raw) THEN SameFields(el, raw)
       ELSE "id" \in DOMAIN raw => el.id = raw.id

\* C37: after an import the board is no longer than the imported list, its
\* elements come from records of the list in the list's order, each from
\* another record, and the records that are neither straight nor curve
\* arrows are all on the board, in order and with all their fields
\* unchanged, whatever records were dropped around them.
C37_OrderAndPassThrough ==
    lastOp = "import" =>
        LET raw == lastArg.elements
            others == SelectSeq(raw, IsOtherRecord)
            passed == SelectSeq(elements,
                                LAMBDA e : KindOf(e) \notin {"arrow-straight", "arrow-curve"})
        IN  /\ Len(elements) <= Len(raw)
            /\ \E f \in [1..Len(elements) -> 1..Len(raw)] :
                  /\ \A a, b \in 1..Len(elements) : a < b => f[a] < f[b]
                  /\ \A k \in 1..Len(elements) : ComesFrom(elements[k], raw[f[k]])
            /\ Len(passed) = Len(others)
            /\ \A k \in 1..Len(passed) : SameFields(passed[k], others[k])

\* C37 witness: of a straight arrow with the string "abc" as x1, a player
\* and a record of kind "text", the arrow is dropped and the two others are
\* on the board in this order, fields unchanged.
C37_Witness ==
    /\ lastOp = "import"
    /\ Len(lastArg.elements) = 3
    /\ KindOf(lastArg.elements[1]) = "arrow-straight"
    /\ Field(lastArg.elements[1], "x1") = JStr("abc")
    /\ elements = << [id |-> 77, kind |-> "player", x |-> 0, y |-> 0, color |-> "red"],
                     [kind |-> "text", x |-> WorldUnit, label |-> "go"] >>
====
